---- MODULE Spec2Model ----
(***************************************************************************)
(* Master-slave electronic load test orchestrator (leerundna_GUI.py).      *)
(*                                                                         *)
(* The model follows MasterSlaveWorkerThread.run position by position:     *)
(* every instrument command is one step, so that the control context       *)
(* (App._stop, App._on_quit) can interleave with the worker wherever the   *)
(* real threads can.                                                       *)
(*                                                                         *)
(* Units.  Time is in whole seconds.  Percentages are kept as integers     *)
(* (the code stores the fraction 0.10 and compares against limit*100).     *)
(* Values the code computes by float division are exact rationals          *)
(* [n |-> numerator, d |-> denominator], compared by cross-multiplication. *)
(***************************************************************************)
EXTENDS Integers, Sequences, FiniteSets, TLC

VARIABLES
    settings,                \* Settings shared by the GUI and the worker
    args,                    \* worker constructor arguments
    pc,                      \* position of the worker inside run()
    pos,                     \* index of the next command of the current block
    ser,                     \* ser[c]: controller c's serial port is open
    opened,                  \* controllers whose open() succeeded in this run
    stop_event,              \* threading.Event _stop_event
    quitting,                \* App._on_quit has been confirmed
    idx,                     \* enumerate() index of the profile step (1-based)
    row,                     \* the ProfileRow the for loop is at
    now,                     \* time.time()
    step_start,              \* local step_start
    transition_start,        \* local transition_start
    current_imbalance_limit, \* local current_imbalance_limit (percent)
    rd,                      \* readings of the tick in progress
    tickResult,              \* what the safety evaluation of that tick did
    tickElapsed,             \* time since transition_start seen by that tick
    sleepLeft,               \* remaining iterations of the inter-poll loop
    csv_writer,              \* a row file is open
    current_csv_start,       \* when the current row file was opened
    sdRet,                   \* where the running _safe_shutdown returns to
    sdLog,                   \* commands attempted by the running/last _safe_shutdown
    sdFailed,                \* which of them raised
    sdReasons,               \* reason of every _safe_shutdown call of this run
    sdCompleted,             \* number of _safe_shutdown calls that returned
    lastCmd,                 \* last command written to a port
    stepPow,                 \* POW values written at the start of step idx
    started,                 \* number of steps whose start was reached
    ticks,                   \* number of telemetry ticks executed
    tripCount,               \* number of ticks that raised a trip
    killedIn,                \* pc at which process exit killed the daemon thread
    imbalances,              \* power_imb, current_imb, voltage_imb of the tick
    raised,                  \* an exception has left a tick for run's handler
    cfgFailed,               \* a command of the parallel configuration raised
    exitCmds,                \* power-down commands attempted since the last step start
    last_measurement_time,   \* self.last_measurement_time
    last_total_power,        \* self.last_total_power
    last_total_current,      \* self.last_total_current
    cumulative_energy_wh,    \* self.cumulative_energy_wh
    cumulative_capacity_ah,  \* self.cumulative_capacity_ah
    tickLog,                 \* (time, total power, total current, step) of every tick
    totals,                  \* locals total_power, total_current, avg_voltage of the tick
    last_avg_voltage,        \* self.last_avg_voltage (millivolts)
    last_capacity_ah,        \* self.last_capacity_ah
    dq_dv,                   \* self.dq_dv
    dq_dv_voltage,           \* self.dq_dv_voltage (millivolts)
    dq_dv_valid,              \* self.dq_dv_valid
    dqCall,                   \* the last _calculate_dq_dv call: arguments and return value
    csvFiles,                \* the row files written so far, in the order opened
    plot_queue,              \* App.plot_queue, samples not yet taken by the GUI
    plot_times,              \* App.plot_times, samples the GUI has taken
    start_btn,               \* state of App.start_btn
    stop_btn,                \* state of App.stop_btn
    cond,                    \* position of the conditioning thread
    condSer,                 \* ports the conditioning thread holds open
    polling,                 \* an _poll_worker_finish callback is scheduled
    tests,                   \* number of tests the user has started
    condLog,                 \* commands the conditioning thread of this test has written
    log_file,                \* worker.log_file: absent, or the time it was opened at
    qry,                     \* one query_float call: its rounds and its result
    executed                 \* the steps whose tick loop the worker has entered, in order

vars == << settings, args, pc, pos, ser, opened, stop_event, quitting, idx, row, now,
           step_start, transition_start, current_imbalance_limit, rd,
           tickResult, tickElapsed, sleepLeft, csv_writer, current_csv_start,
           sdRet, sdLog, sdFailed, sdReasons, sdCompleted, lastCmd, stepPow,
           started, ticks, tripCount, killedIn, imbalances, raised, cfgFailed,
           exitCmds, last_measurement_time, last_total_power,
           last_total_current, cumulative_energy_wh, cumulative_capacity_ah,
           tickLog, totals, last_avg_voltage, last_capacity_ah, dq_dv,
           dq_dv_voltage, dq_dv_valid, dqCall, csvFiles, plot_queue, plot_times,
           start_btn, stop_btn, cond, condSer, polling, tests, condLog,
           log_file, qry, executed >>

(***************************************************************************)
(* Bounds and inputs                                                       *)
(***************************************************************************)
MaxTime == 6     \* the clock stops advancing here

None == "None"   \* Python None for an unset field or local
M == "MASTER"
S == "SLAVE"
Controllers == {M, S}

\* ProfileRow: total_power in W, duration in seconds (value * unit).
Fixed(p, d) == [total_power |-> p, cutoff |-> FALSE, dur_seconds |-> d]
Cutoff(p)   == [total_power |-> p, cutoff |-> TRUE,  dur_seconds |-> 0]

Profiles ==
    { << Fixed(300, 5) >>,
      << Cutoff(101) >>,
      << Fixed(300, 2), Fixed(101, 3) >>,
      << Fixed(300, 2), Cutoff(101) >>,
      << Cutoff(101), Fixed(300, 2) >> }

\* Settings as App._apply_settings builds them; limits in percent.
SettingsSet ==
    { [ profile                 |-> p,
        cutoff_voltage          |-> 10,
        cutoff_safety_enabled   |-> ce,
        imbalance_check_enabled |-> ie,
        imbalance_limit         |-> 10,
        imbalance_transition    |-> 25,
        transition_duration     |-> 2,
        voltage_diff_limit      |-> 10 ]
      : p \in Profiles, ce \in BOOLEAN, ie \in BOOLEAN }

\* record_interval_s and rotate_hours (as seconds) given to the worker.
ArgsSet == { [ record_interval_s |-> 2, rotate_seconds |-> 4 ] }

\* A reading is Optional[float]: Absent models Python None, V(x) the float x.
Absent == << >>
V(x) == << x >>
Present(x) == x # Absent
Val(x) == x[1]

Rd(mv, mi, mp, sv, si, sp) ==
    [ mv |-> mv, mi |-> mi, mp |-> mp, sv |-> sv, si |-> si, sp |-> sp ]

NoReadings == Rd(Absent, Absent, Absent, Absent, Absent, Absent)

\* What the six queries of one tick can return (V, A, W per controller).
ReadingSamples ==
    { Rd(V(12), V(5), V(60), V(12), V(5), V(60)),  \* balanced, above cutoff
      NoReadings,                                  \* every query failed
      Rd(V(12), V(5), V(66), V(12), V(5), V(54)),  \* power imbalance 20 %
      Rd(V(12), V(5), V(90), V(12), V(5), V(30)),  \* power imbalance 100 %
      Rd(V(12), V(9), V(60), V(12), V(3), V(60)),  \* current imbalance 100 %
      Rd(V(13), V(5), V(60), V(11), V(5), V(60)),  \* voltage imbalance 16.7 %
      Rd(V(10), V(5), V(60), V(10), V(5), V(60)),  \* both voltages at the cutoff
      Rd(V(12), V(9), V(90), V(9), V(3), V(30)),   \* power, current, voltage, cutoff
      Rd(V(12), V(9), V(60), V(9), V(3), V(60)),   \* current, voltage, cutoff
      Rd(Absent, V(5), V(60), V(9), V(5), V(60)),  \* master voltage absent, slave low
      Rd(V(12), V(5), V(0), V(12), V(5), V(60)),   \* a zero power reading
      Rd(V(12), Absent, V(90), V(12), V(3), Absent) } \* one reading of a pair absent

(***************************************************************************)
(* Pure helpers                                                            *)
(***************************************************************************)
Zero == [n |-> 0, d |-> 1]

Abs(x) == IF x < 0 THEN -x ELSE x

\* x > L for a rational x with positive denominator and an integer L.
GtPct(x, L) == x.n > L * x.d

\* One pair of _calculate_imbalances: |a-b| / ((a+b)/2) * 100 when both
\* readings are present and their average is positive, else 0.0.
ImbalanceOverMaster(a, b) ==
    IF Present(a) /\ Present(b)
    THEN IF Val(a) + Val(b) > 0 /\ Val(a) > 0
         THEN [n |-> Abs(Val(a) - Val(b)) * 100, d |-> Val(a)]
         ELSE Zero
    ELSE Zero

Imbalance(a, b) ==
    IF Present(a) /\ Present(b)
    THEN IF Val(a) + Val(b) > 0
         THEN [n |-> Abs(Val(a) - Val(b)) * 200, d |-> Val(a) + Val(b)]
         ELSE Zero
    ELSE Zero

CalculateImbalances(r) ==
    [ power   |-> Imbalance(r.mp, r.sp),
      current |-> Imbalance(r.mi, r.si),
      voltage |-> Imbalance(r.mv, r.sv) ]

\* power_imb = current_imb = voltage_imb = 0.0
NoImbalances == [power |-> Zero, current |-> Zero, voltage |-> Zero]

\* An accumulator is a number of hours times a quantity: n / 7200, the
\* numerator being seconds times twice the trapezoid's mean.
ZeroHours == [n |-> 0, d |-> 7200]

\* "Calculate totals": the sum of the readings that are present.
TotalOfBothOnly(a, b) ==
    IF Present(a) /\ Present(b) THEN Val(a) + Val(b) ELSE 0

TotalOf(a, b) ==
    IF Present(a) /\ Present(b) THEN Val(a) + Val(b)
    ELSE IF Present(a) THEN Val(a)
    ELSE IF Present(b) THEN Val(b)
    ELSE 0

\* avg_voltage: (master + slave) / 2.0, the single reading, or 0.0.
AvgVoltage(a, b) ==
    IF Present(a) /\ Present(b) THEN [n |-> Val(a) + Val(b), d |-> 2]
    ELSE IF Present(a) THEN [n |-> Val(a), d |-> 1]
    ELSE IF Present(b) THEN [n |-> Val(b), d |-> 1]
    ELSE Zero

\* The three derived values of one tick.
Totals(r) ==
    [ total_power   |-> TotalOf(r.mp, r.sp),
      total_current |-> TotalOf(r.mi, r.si),
      avg_voltage   |-> AvgVoltage(r.mv, r.sv) ]

NoTotals == [total_power |-> 0, total_current |-> 0, avg_voltage |-> Zero]

\* "x is not None and x > 0"
Positive(x) == Present(x) /\ Val(x) > 0

\* master_power = slave_power = total_power_setting / 2.0
HalfPowerFloor(total) == [n |-> total \div 2, d |-> 1]

HalfPower(total) == [n |-> total, d |-> 2]

\* "Check transition phase": the limit a tick uses, given the time since
\* transition_start and the limit in force before the tick.
NextLimitNeverTightens(elapsed, cur, s) == cur

NextLimit(elapsed, cur, s) ==
    IF elapsed > s.transition_duration THEN s.imbalance_limit ELSE cur

\* The three imbalance checks of the imbalance_check_enabled branch, in
\* source order; "None" when none of them trips.
ImbalanceTrip(r, limit, s) ==
    LET imb == CalculateImbalances(r) IN
    IF Positive(r.mp) /\ Positive(r.sp) /\ GtPct(imb.power, limit)
    THEN "PowerImbalance"
    ELSE IF Positive(r.mi) /\ Positive(r.si) /\ GtPct(imb.current, limit)
    THEN "CurrentImbalance"
    ELSE IF Positive(r.mv) /\ Positive(r.sv)
            /\ GtPct(imb.voltage, s.voltage_diff_limit)
    THEN "VoltageImbalance"
    ELSE "None"

\* "Check voltage cutoff"
CutoffTripAbsentAsZero(r, s) ==
    /\ s.cutoff_safety_enabled
    /\ \/ (~Present(r.mv) \/ Val(r.mv) <= s.cutoff_voltage)
       \/ (~Present(r.sv) \/ Val(r.sv) <= s.cutoff_voltage)

CutoffTrip(r, s) ==
    /\ s.cutoff_safety_enabled
    /\ \/ (Present(r.mv) /\ Val(r.mv) <= s.cutoff_voltage)
       \/ (Present(r.sv) /\ Val(r.sv) <= s.cutoff_voltage)

\* The warning lines of the branch taken when imbalance checking is
\* disabled.  In the cutoff-step copy of the loop the current-imbalance line
\* is built with the format specification ". 1f", which Python rejects
\* with ValueError ("Format specifier missing precision"): the line is never
\* logged, the exception leaves the tick.
FormatRaises(r, cutoffStep) ==
    cutoffStep /\ GtPct(CalculateImbalances(r).current, 50)

Warnings(r, cutoffStep) ==
    LET imb == CalculateImbalances(r) IN
    (IF GtPct(imb.power, 50) THEN {"power"} ELSE {})
    \cup (IF GtPct(imb.current, 50) /\ ~cutoffStep THEN {"current"} ELSE {})
    \cup (IF GtPct(imb.voltage, 20) /\ ~FormatRaises(r, cutoffStep)
          THEN {"voltage"} ELSE {})

TripReasons ==
    {"PowerImbalance", "CurrentImbalance", "VoltageImbalance", "VoltageCutoff"}

\* Safety evaluation of one tick: the imbalance branch, then the cutoff
\* check.  outcome is a member of TripReasons, "Exception" or "None".
SafetyCheck(r, limit, s, cutoffStep) ==
    IF s.imbalance_check_enabled
    THEN IF ImbalanceTrip(r, limit, s) # "None"
         THEN [outcome |-> ImbalanceTrip(r, limit, s), warnings |-> {}]
         ELSE [outcome |-> IF CutoffTrip(r, s) THEN "VoltageCutoff" ELSE "None",
               warnings |-> {}]
    ELSE IF FormatRaises(r, cutoffStep)
         THEN [outcome |-> "Exception", warnings |-> Warnings(r, cutoffStep)]
         ELSE [outcome |-> IF CutoffTrip(r, s) THEN "VoltageCutoff" ELSE "None",
               warnings |-> Warnings(r, cutoffStep)]

(***************************************************************************)
(* Instrument commands                                                     *)
(***************************************************************************)
\* A command line written to controller `to`; val is the argument of POW
\* and NoVal for the commands that take none.
NoVal == [n |-> 0, d |-> 0]

Cmd(to, c, v) == [to |-> to, cmd |-> c, val |-> v]

\* get_idn of both controllers, inside one try.
IdnCmds == << Cmd(M, "*IDN?", NoVal), Cmd(S, "*IDN?", NoVal) >>

\* "Configure master-slave parallel mode", inside one try.
ParallelCmds ==
    << Cmd(M, "SYST:REM", NoVal), Cmd(S, "SYST:REM", NoVal),
       Cmd(M, "CONF:PARA:MODE MASTER", NoVal),
       Cmd(S, "CONF: PARA:MODE SLAVE", NoVal),
       Cmd(M, "CONF:PARA ON", NoVal), Cmd(S, "CONF:PARA ON", NoVal),
       Cmd(M, "FUNC POW", NoVal), Cmd(S, "FUNC POW", NoVal) >>

\* "Set power and enable", inside one try.
StepStartCmds(total) ==
    << Cmd(M, "POW", HalfPower(total)), Cmd(S, "POW", HalfPower(total)),
       Cmd(M, "LOAD ON", NoVal), Cmd(S, "LOAD ON", NoVal) >>

\* The handler of a failed step start, inside one try.
StepFailCmds == << Cmd(M, "LOAD OFF", NoVal), Cmd(S, "LOAD OFF", NoVal) >>

\* "Step complete - turn off for this step", inside one try.
StepEndCmds ==
    << Cmd(M, "POW", Zero), Cmd(S, "POW", Zero),
       Cmd(M, "LOAD OFF", NoVal), Cmd(S, "LOAD OFF", NoVal) >>

\* _safe_shutdown: four loops over (MASTER, SLAVE), each command in its own try.
ShutdownCmdsPerController ==
    << Cmd(M, "POW", Zero), Cmd(M, "LOAD OFF", NoVal), Cmd(M, "INPUT OFF", NoVal),
       Cmd(M, "CONF:PARA OFF", NoVal), Cmd(M, "SYST:LOC", NoVal),
       Cmd(S, "POW", Zero), Cmd(S, "LOAD OFF", NoVal), Cmd(S, "INPUT OFF", NoVal),
       Cmd(S, "CONF:PARA OFF", NoVal), Cmd(S, "SYST:LOC", NoVal) >>

ShutdownCmds ==
    << Cmd(M, "POW", Zero), Cmd(S, "POW", Zero),
       Cmd(M, "LOAD OFF", NoVal), Cmd(M, "INPUT OFF", NoVal),
       Cmd(S, "LOAD OFF", NoVal), Cmd(S, "INPUT OFF", NoVal),
       Cmd(M, "CONF:PARA OFF", NoVal), Cmd(S, "CONF:PARA OFF", NoVal),
       Cmd(M, "SYST:LOC", NoVal), Cmd(S, "SYST:LOC", NoVal) >>

\* Position of the command _safe_shutdown attempts after the one at p.
SdNextPosAbort(p, ok) == IF ok THEN p + 1 ELSE Len(ShutdownCmds) + 1

SdNextPos(p, ok) == p + 1

\* The finally block of run: per controller, five commands inside one try.
FinallyCmds ==
    << Cmd(M, "POW", Zero), Cmd(M, "LOAD OFF", NoVal), Cmd(M, "INPUT OFF", NoVal),
       Cmd(M, "CONF:PARA OFF", NoVal), Cmd(M, "SYST:LOC", NoVal),
       Cmd(S, "POW", Zero), Cmd(S, "LOAD OFF", NoVal), Cmd(S, "INPUT OFF", NoVal),
       Cmd(S, "CONF:PARA OFF", NoVal), Cmd(S, "SYST:LOC", NoVal) >>

\* send_cmd: with the port closed (ser is None) the command is only logged
\* and nothing can fail; otherwise it is written, or the write raises.
Write(c, ok) ==
    IF ser[c.to]
    THEN lastCmd' = [to |-> c.to, cmd |-> c.cmd, val |-> c.val,
                     tog |-> 1 - lastCmd.tog]
    ELSE ok /\ UNCHANGED lastCmd

(***************************************************************************)
(* Initial state: the worker thread has been constructed and started.      *)
(***************************************************************************)
NoResult == [outcome |-> "None", warnings |-> {}]

\* _condition_and_start, steps 1 to 6, in the order written.
CondCmds ==
    << Cmd(M, "SYST:REM", NoVal), Cmd(S, "SYST:REM", NoVal),
       Cmd(M, "MODE:CW", NoVal), Cmd(S, "MODE:CW", NoVal),
       Cmd(M, "POW", Zero), Cmd(S, "POW", Zero),
       Cmd(M, "INPUT ON", NoVal), Cmd(S, "INPUT ON", NoVal),
       Cmd(M, "CONF:PARA ON", NoVal), Cmd(S, "CONF:PARA ON", NoVal),
       Cmd(M, "LOAD ON", NoVal), Cmd(S, "LOAD ON", NoVal) >>

\* The dQ/dV fields as __init__ leaves them.
DqInit ==
    /\ last_avg_voltage = Absent
    /\ last_capacity_ah = 0
    /\ dq_dv = Zero
    /\ dq_dv_voltage = Zero
    /\ dq_dv_valid = FALSE
    /\ dqCall = [voltage |-> 0, capacity |-> 0, ret |-> None]

\* No row file yet, the plot queue and the plot arrays empty.
FeedInit ==
    /\ csvFiles = << >>
    /\ plot_queue = << >>
    /\ plot_times = << >>

\* The GUI once _start_test_after_conditioning has started the worker of
\* the first test.
AppRunning ==
    /\ start_btn = "disabled"
    /\ stop_btn = "normal"
    /\ cond = "idle"
    /\ condSer = {}
    /\ polling = FALSE
    /\ tests = 1
    /\ condLog = CondCmds

\* No query_float call under way.
NoQuery == [attempts |-> 0, rounds |-> << >>, state |-> "idle", ret |-> Absent]

QryInit == qry = NoQuery

ExtInit == DqInit /\ FeedInit /\ AppRunning /\ QryInit

\* The worker's fields and the locals of run as __init__ and start() leave
\* them.
WorkerFields ==
    /\ pos = 1
    /\ ser = [c \in Controllers |-> FALSE]
    /\ opened = {}
    /\ stop_event = FALSE
    /\ quitting = FALSE
    /\ idx = 0
    /\ row = None
    /\ now = 0
    /\ step_start = 0
    /\ transition_start = 0
    /\ current_imbalance_limit = 0
    /\ rd = NoReadings
    /\ tickResult = NoResult
    /\ tickElapsed = 0
    /\ sleepLeft = 0
    /\ csv_writer = FALSE
    /\ current_csv_start = 0
    /\ log_file = Absent
    /\ sdRet = None
    /\ sdLog = << >>
    /\ sdFailed = {}
    /\ sdReasons = << >>
    /\ sdCompleted = 0
    /\ lastCmd = [to |-> None, cmd |-> None, val |-> NoVal, tog |-> 0]
    /\ stepPow = [c \in Controllers |-> NoVal]
    /\ started = 0
    /\ executed = << >>
    /\ ticks = 0
    /\ tripCount = 0
    /\ killedIn = None
    /\ imbalances = NoImbalances
    /\ raised = FALSE
    /\ cfgFailed = FALSE
    /\ exitCmds = {}
    /\ last_measurement_time = Absent
    /\ last_total_power = 0
    /\ last_total_current = 0
    /\ cumulative_energy_wh = ZeroHours
    /\ cumulative_capacity_ah = ZeroHours
    /\ tickLog = << >>
    /\ totals = NoTotals

StartOfRun ==
    /\ pc = "open"
    /\ WorkerFields
    /\ ExtInit

Init ==
    /\ settings \in SettingsSet
    /\ args \in ArgsSet
    /\ StartOfRun

cfgVars  == << settings, args, opened >>
ctlVars  == << stop_event, quitting, killedIn >>
stepVars == << idx, row, started, stepPow, executed >>
timeVars == << now, step_start, transition_start, current_imbalance_limit >>
tickVars == << rd, tickResult, tickElapsed, ticks, tripCount, imbalances, totals >>
csvVars  == << csv_writer, current_csv_start, log_file >>
sdVars   == << sdRet, sdLog, sdFailed, sdReasons, sdCompleted >>
accVars  == << last_measurement_time, last_total_power, last_total_current,
               cumulative_energy_wh, cumulative_capacity_ah, tickLog >>
histVars == << raised, cfgFailed, exitCmds >>
dqVars   == << last_avg_voltage, last_capacity_ah, dq_dv, dq_dv_voltage,
               dq_dv_valid, dqCall >>
outVars  == << csvFiles, plot_queue >>
appVars  == << start_btn, stop_btn, cond, condSer, polling, tests,
               condLog >>
qryVars  == << qry >>
extVars  == << dqVars, qryVars, plot_times, appVars >>

\* Entry of _safe_shutdown(reason); ret is the position of the caller.
BeginShutdown(reason, ret) ==
    /\ pc' = "sd"
    /\ pos' = 1
    /\ sdRet' = ret
    /\ sdLog' = << >>
    /\ sdFailed' = {}
    /\ sdReasons' = Append(sdReasons, reason)
    /\ UNCHANGED sdCompleted

\* "except Exception as exc" of run: the exception is logged and
\* _safe_shutdown("Exception occurred: ...") runs before the finally block.
ExceptionEscapes ==
    /\ pc' = "finally"
    /\ pos' = 1
    /\ UNCHANGED sdVars

ExceptionHandler == BeginShutdown("Exception", "finally")

\* One command of a block of commands that share one try: the first write
\* that raises leaves the block for onFail, the last one for onDone.
TryBlock(name, cmds, onDone, onFail) ==
    /\ pc = name
    /\ \E ok \in BOOLEAN :
         /\ Write(cmds[pos], ok)
         /\ IF ~ok THEN pc' = onFail /\ pos' = 1
            ELSE IF pos = Len(cmds) THEN pc' = onDone /\ pos' = 1
            ELSE pc' = pc /\ pos' = pos + 1

(***************************************************************************)
(* MasterSlaveWorkerThread.run                                             *)
(***************************************************************************)
\* _open_log_file at time t: a failure to open is caught and leaves the
\* worker without a log file.
OpenLogFileNamedAtTestStart(ok, t) == IF ok THEN V(0) ELSE Absent

OpenLogFile(ok, t) == IF ok THEN V(t) ELSE Absent

\* _open_log_file(), then master.open(); slave.open(): either raises, run
\* logs and returns (into its finally block).
Open ==
    /\ pc = "open"
    /\ \E lok \in BOOLEAN : log_file' = OpenLogFile(lok, now)
    /\ \E r \in {"ok", "master fails", "slave fails"} :
         /\ ser' = [ser EXCEPT ![M] = (r # "master fails"), ![S] = (r = "ok")]
         /\ pc' = IF r = "ok" THEN "idn" ELSE "finally"
    /\ opened' = {c \in Controllers : ser'[c]}
    /\ pos' = 1
    /\ UNCHANGED << settings, args, accVars, extVars, outVars, histVars, ctlVars, stepVars, timeVars, tickVars,
                    csv_writer, current_csv_start, sdVars, sleepLeft, lastCmd >>

Idn ==
    /\ TryBlock("idn", IdnCmds, "cfg", "cfg")
    /\ UNCHANGED << cfgVars, accVars, extVars, outVars, histVars, ctlVars, stepVars, timeVars, tickVars, csvVars,
                    sdVars, sleepLeft, ser >>

ConfigureParallel ==
    /\ pc = "cfg"
    /\ \E ok \in BOOLEAN :
         /\ Write(ParallelCmds[pos], ok)
         /\ cfgFailed' = ~ok
         /\ IF ~ok \/ pos = Len(ParallelCmds)
            THEN pc' = "opencsv" /\ pos' = 1
            ELSE pc' = pc /\ pos' = pos + 1
    /\ UNCHANGED << cfgVars, accVars, extVars, outVars, raised, exitCmds, ctlVars, stepVars, timeVars, tickVars, csvVars,
                    sdVars, sleepLeft, ser >>

\* The name _open_new_csv gives the file it opens at time t: the prefix and
\* the local time to the second.
CsvNameToTheMinute(t) == t \div 60

CsvName(t) == t

\* _open_new_csv at time t: open(path, "w") creates the file, or empties
\* the file of that name.
OpenNewCsv(files, t) ==
    IF \E i \in DOMAIN files : files[i].name = CsvName(t)
    THEN [ i \in DOMAIN files |->
             IF files[i].name = CsvName(t)
             THEN [name |-> CsvName(t), rows |-> << >>]
             ELSE files[i] ]
    ELSE Append(files, [name |-> CsvName(t), rows |-> << >>])

\* _write_csv_row: the row of tick n goes to the file opened last.
WriteCsvRow(files, n) ==
    [files EXCEPT ![Len(files)].rows = Append(@, n)]

\* _push_plot_point: plot_queue.put(sample) on a queue.Queue() made without
\* a maxsize.
PushPlotPointBlocking(sample) ==
    /\ Len(plot_queue) < 1
    /\ plot_queue' = Append(plot_queue, sample)

PushPlotPointLifo(sample) ==
    plot_queue' = << sample >> \o plot_queue

PushPlotPoint(sample) ==
    plot_queue' = Append(plot_queue, sample)

\* _open_new_csv at test start; a failure is logged and the run goes on
\* without a row file.
OpenCsv ==
    /\ pc = "opencsv"
    /\ \E ok \in BOOLEAN :
         /\ csv_writer' = ok
         /\ current_csv_start' = IF ok THEN now ELSE current_csv_start
         /\ csvFiles' = IF ok THEN OpenNewCsv(csvFiles, now) ELSE csvFiles
    /\ pc' = "stepcheck"
    /\ UNCHANGED << cfgVars, accVars, extVars, plot_queue, histVars, ctlVars, stepVars, timeVars, tickVars, sdVars,
                    sleepLeft, ser, pos, lastCmd, log_file >>

\* Head of "for idx, row in enumerate(self.settings.profile, start=1)" with
\* the stop check that opens the loop body.
NextStep ==
    /\ pc = "stepcheck"
    /\ IF idx >= Len(settings.profile)
       THEN /\ BeginShutdown("ProfileCompleted", "finally")
            /\ UNCHANGED stepVars
       ELSE /\ idx' = idx + 1
            /\ row' = settings.profile[idx + 1]
            /\ stepPow' = [c \in Controllers |-> NoVal]
            /\ UNCHANGED executed
            /\ IF stop_event
               THEN /\ BeginShutdown("UserRequested", "finally")
                    /\ UNCHANGED started
               ELSE /\ pc' = "stepstart"
                    /\ pos' = 1
                    /\ started' = started + 1
                    /\ UNCHANGED sdVars
    /\ UNCHANGED << cfgVars, accVars, extVars, outVars, histVars, ctlVars, timeVars, tickVars, csvVars, sleepLeft,
                    ser, lastCmd >>

\* "Set power and enable"; after the four commands the transition window
\* and the step clock start.
StepStart ==
    /\ pc = "stepstart"
    /\ LET cmds == StepStartCmds(row.total_power)
           c == cmds[pos]
       IN \E ok \in BOOLEAN :
            /\ Write(c, ok)
            /\ stepPow' = IF c.cmd = "POW" /\ ser[c.to]
                          THEN [stepPow EXCEPT ![c.to] = c.val]
                          ELSE stepPow
            /\ executed' = IF ok /\ pos = Len(cmds)
                           THEN Append(executed, idx) ELSE executed
            /\ IF ~ok
               THEN /\ pc' = "stepfail" /\ pos' = 1
                    /\ UNCHANGED timeVars
               ELSE IF pos = Len(cmds)
               THEN /\ pc' = "loop" /\ pos' = 1
                    /\ transition_start' = now
                    /\ current_imbalance_limit' = settings.imbalance_transition
                    /\ step_start' = now
                    /\ UNCHANGED now
               ELSE /\ pc' = pc /\ pos' = pos + 1
                    /\ UNCHANGED timeVars
    /\ exitCmds' = {}
    /\ UNCHANGED << cfgVars, accVars, extVars, outVars, raised, cfgFailed, ctlVars, idx, row, started, tickVars, csvVars,
                    sdVars, sleepLeft, ser >>

\* except-branch of the step start: load_off on both, then "continue".
StepFail ==
    /\ TryBlock("stepfail", StepFailCmds, "stepcheck", "stepcheck")
    /\ exitCmds' = exitCmds \cup {StepFailCmds[pos]}
    /\ UNCHANGED << cfgVars, accVars, extVars, outVars, raised, cfgFailed, ctlVars, stepVars, timeVars, tickVars, csvVars,
                    sdVars, sleepLeft, ser >>

\* Guard of the while loop of the step.
LoopContinues ==
    IF row.cutoff
    THEN ~stop_event
    ELSE (now - step_start) < row.dur_seconds /\ ~stop_event

\* The loop guard and, when it holds, the first half of a tick: the six
\* queries (answered from samples), the transition check and the safety
\* evaluation.
TickBody(samples) ==
    /\ pc = "loop"
    /\ IF ~LoopContinues
       THEN /\ pc' = "postloop"
            /\ UNCHANGED << tickVars, current_imbalance_limit >>
       ELSE \E r \in samples :
            LET elapsed == now - transition_start
                limit == NextLimit(elapsed, current_imbalance_limit, settings)
            IN /\ rd' = r
               /\ ticks' = ticks + 1
               /\ tickElapsed' = elapsed
               /\ current_imbalance_limit' = limit
               /\ totals' = Totals(r)
               /\ imbalances' = CalculateImbalances(r)
               /\ tickResult' = SafetyCheck(r, limit, settings, row.cutoff)
               /\ pc' = "ticked"
               /\ UNCHANGED tripCount
    /\ UNCHANGED << cfgVars, histVars, extVars, outVars, ctlVars, stepVars, now,
                    step_start, transition_start, csvVars, sdVars, sleepLeft, ser, pos,
                    lastCmd >>

\* The tick as Spec follows it.  The accumulators never feed a decision of
\* run, so Spec leaves them alone; SpecAcc below follows them.
Tick == TickBody(ReadingSamples) /\ UNCHANGED accVars

\* _maybe_rotate_csv is due
RotationDue ==
    csv_writer /\ (now - current_csv_start) >= args.rotate_seconds

\* Second half of the tick: a trip or an exception enters _safe_shutdown,
\* otherwise the row is logged (rotating first when due) and published and
\* the inter-poll delay starts.  The tick's locals are dead from here on
\* and are cleared.
TickFinish ==
    /\ pc = "ticked"
    /\ rd' = NoReadings
    /\ tickResult' = NoResult
    /\ tickElapsed' = 0
    /\ imbalances' = NoImbalances
    /\ totals' = NoTotals
    /\ UNCHANGED ticks
    /\ IF tickResult.outcome \in TripReasons
       THEN /\ BeginShutdown(tickResult.outcome, "tripped")
            /\ tripCount' = tripCount + 1
            /\ UNCHANGED << csvVars, sleepLeft, raised, outVars >>
       ELSE IF tickResult.outcome = "Exception"
       THEN /\ ExceptionHandler
            /\ raised' = TRUE
            /\ UNCHANGED << tripCount, csvVars, sleepLeft, outVars >>
       ELSE /\ UNCHANGED tripCount
            /\ \E reopened \in BOOLEAN :
                 IF RotationDue /\ ~reopened
                 THEN \* _close_csv ran, _open_new_csv raised
                      /\ csv_writer' = FALSE
                      /\ UNCHANGED << current_csv_start, log_file, sleepLeft,
                                      outVars >>
                      /\ ExceptionHandler
                      /\ raised' = TRUE
                 ELSE /\ reopened
                      /\ current_csv_start' =
                             IF RotationDue THEN now ELSE current_csv_start
                      /\ \E lok \in BOOLEAN :
                            log_file' = IF RotationDue
                                        THEN OpenLogFile(lok, now)
                                        ELSE log_file
                      /\ csvFiles' =
                             IF ~csv_writer THEN csvFiles
                             ELSE WriteCsvRow(IF RotationDue
                                              THEN OpenNewCsv(csvFiles, now)
                                              ELSE csvFiles, ticks)
                      /\ PushPlotPoint(ticks)
                      /\ UNCHANGED << csv_writer, sdVars, pos, raised >>
                      /\ sleepLeft' = args.record_interval_s
                      /\ pc' = "sleep"
    /\ UNCHANGED << cfgVars, accVars, extVars, cfgFailed, exitCmds, ctlVars, stepVars, timeVars, ser, lastCmd >>

\* Head of "for _ in range(record_interval_s): if stop: break;
\* time.sleep(1)" and the stop check that follows the loop.
SleepIgnoresStop ==
    /\ pc = "sleep"
    /\ IF sleepLeft = 0
       THEN pc' = IF stop_event THEN "postloop" ELSE "loop"
       ELSE pc' = "sleeping"
    /\ UNCHANGED << cfgVars, accVars, extVars, outVars, histVars, ctlVars,
                    stepVars, timeVars, tickVars, csvVars, sdVars, sleepLeft,
                    ser, pos, lastCmd >>

Sleep ==
    /\ pc = "sleep"
    /\ IF stop_event THEN pc' = "postloop"
       ELSE IF sleepLeft = 0 THEN pc' = "loop"
       ELSE pc' = "sleeping"
    /\ UNCHANGED << cfgVars, accVars, extVars, outVars, histVars, ctlVars,
                    stepVars, timeVars, tickVars, csvVars, sdVars, sleepLeft,
                    ser, pos, lastCmd >>

\* time.sleep(1) of the inter-poll loop
SleepOneSecond ==
    /\ pc = "sleeping"
    /\ now < MaxTime
    /\ now' = now + 1
    /\ sleepLeft' = sleepLeft - 1
    /\ pc' = "sleep"
    /\ UNCHANGED << cfgVars, accVars, extVars, outVars, histVars, ctlVars,
                    stepVars, step_start, transition_start,
                    current_imbalance_limit, tickVars, csvVars, sdVars, ser,
                    pos, lastCmd >>

\* After the while loop: "if self._stop_event.is_set(): _safe_shutdown(...);
\* return", else the step is complete.
PostLoopNoShutdown ==
    /\ pc' = IF stop_event THEN "finally" ELSE "stepend"
    /\ pos' = 1
    /\ UNCHANGED sdVars

PostLoopBody ==
    IF stop_event
    THEN BeginShutdown("UserRequested", "finally")
    ELSE pc' = "stepend" /\ pos' = 1 /\ UNCHANGED sdVars

PostLoop ==
    /\ pc = "postloop"
    /\ PostLoopBody
    /\ UNCHANGED << cfgVars, accVars, extVars, outVars, histVars, ctlVars, stepVars, timeVars, tickVars, csvVars,
                    sleepLeft, ser, lastCmd >>

\* After a trip's _safe_shutdown returned: "self.request_stop(); break".
TrippedNoStop ==
    /\ pc = "tripped"
    /\ pc' = "postloop"
    /\ UNCHANGED << cfgVars, accVars, extVars, outVars, histVars, ctlVars, stepVars, timeVars, tickVars,
                    csvVars, sdVars, sleepLeft, ser, pos, lastCmd >>

Tripped ==
    /\ pc = "tripped"
    /\ stop_event' = TRUE
    /\ pc' = "postloop"
    /\ UNCHANGED << cfgVars, accVars, extVars, outVars, histVars, quitting, killedIn, stepVars, timeVars, tickVars,
                    csvVars, sdVars, sleepLeft, ser, pos, lastCmd >>

StepEnd ==
    /\ TryBlock("stepend", StepEndCmds, "stepcheck", "stepcheck")
    /\ exitCmds' = exitCmds \cup {StepEndCmds[pos]}
    /\ UNCHANGED << cfgVars, accVars, extVars, outVars, raised, cfgFailed, ctlVars, stepVars, timeVars, tickVars, csvVars,
                    sdVars, sleepLeft, ser >>

\* One command of _safe_shutdown, in its own try/except.
ShutdownCommand(ok) ==
    LET c == ShutdownCmds[pos]
        np == SdNextPos(pos, ok)
    IN /\ pc = "sd"
       /\ Write(c, ok)
       /\ sdLog' = Append(sdLog, c)
       /\ IF np > Len(ShutdownCmds)
          THEN /\ pc' = sdRet
               /\ pos' = 1
               /\ sdCompleted' = sdCompleted + 1
          ELSE /\ pc' = pc
               /\ pos' = np
               /\ UNCHANGED sdCompleted
       /\ UNCHANGED << cfgVars, accVars, extVars, outVars, histVars, ctlVars, stepVars, timeVars, tickVars,
                       csvVars, sdRet, sdReasons, sleepLeft, ser >>

SafeShutdown ==
    \E ok \in BOOLEAN : ShutdownCommand(ok) /\ UNCHANGED sdFailed

\* finally: for each controller the five commands inside one try.
Finally ==
    /\ pc = "finally"
    /\ \E ok \in BOOLEAN :
         /\ Write(FinallyCmds[pos], ok)
         /\ IF ~ok /\ pos <= 5 THEN pc' = pc /\ pos' = 6
            ELSE IF ~ok \/ pos = Len(FinallyCmds) THEN pc' = "close" /\ pos' = 1
            ELSE pc' = pc /\ pos' = pos + 1
    /\ UNCHANGED << cfgVars, accVars, extVars, outVars, histVars, ctlVars, stepVars, timeVars, tickVars, csvVars,
                    sdVars, sleepLeft, ser >>

\* finally, continued: _close_csv, _close_log_file, master.close(),
\* slave.close().
CloseUnlessOpenFailed ==
    /\ pc = "close"
    /\ csv_writer' = FALSE
    /\ log_file' = Absent
    /\ ser' = IF opened = Controllers
              THEN [c \in Controllers |-> FALSE] ELSE ser
    /\ pc' = "finished"
    /\ UNCHANGED << cfgVars, accVars, extVars, outVars, histVars, ctlVars, stepVars, timeVars,
                    tickVars, current_csv_start, sdVars, sleepLeft, pos,
                    lastCmd >>

CloseLeavesLogFile ==
    /\ pc = "close"
    /\ csv_writer' = FALSE
    /\ ser' = [c \in Controllers |-> FALSE]
    /\ pc' = "finished"
    /\ UNCHANGED << cfgVars, accVars, extVars, outVars, histVars, ctlVars, stepVars, timeVars, tickVars,
                    current_csv_start, log_file, sdVars, sleepLeft, pos, lastCmd >>

Close ==
    /\ pc = "close"
    /\ csv_writer' = FALSE
    /\ log_file' = Absent
    /\ ser' = [c \in Controllers |-> FALSE]
    /\ pc' = "finished"
    /\ UNCHANGED << cfgVars, accVars, extVars, outVars, histVars, ctlVars, stepVars, timeVars, tickVars,
                    current_csv_start, sdVars, sleepLeft, pos, lastCmd >>

(***************************************************************************)
(* The control context (Tk main thread)                                    *)
(***************************************************************************)
WorkerAlive == pc \notin {"unstarted", "finished", "killed"}

\* App._stop -> worker.request_stop()
RequestStop ==
    /\ WorkerAlive
    /\ ~stop_event
    /\ stop_event' = TRUE
    /\ UNCHANGED << cfgVars, accVars, extVars, outVars, histVars, quitting, killedIn, stepVars, timeVars, tickVars,
                    csvVars, sdVars, sleepLeft, ser, pc, pos, lastCmd >>

\* App._on_quit with a live worker, confirmed by the user: request_stop().
OnQuit ==
    /\ WorkerAlive
    /\ ~quitting
    /\ stop_event' = TRUE
    /\ quitting' = TRUE
    /\ UNCHANGED << cfgVars, accVars, extVars, outVars, histVars, killedIn, stepVars, timeVars, tickVars, csvVars,
                    sdVars, sleepLeft, ser, pc, pos, lastCmd >>

\* App._on_quit, continued: after at most 30 polls of 0.1 s it calls
\* destroy(); mainloop returns, the process exits and the worker, a daemon
\* thread, ends wherever it is.
AppExit ==
    /\ quitting
    /\ WorkerAlive
    /\ killedIn' = pc
    /\ pc' = "killed"
    /\ UNCHANGED << cfgVars, accVars, extVars, outVars, histVars, stop_event, quitting, stepVars, timeVars,
                    tickVars, csvVars, sdVars, sleepLeft, ser, pos, lastCmd >>

Next ==
    \/ Open
    \/ Idn
    \/ ConfigureParallel
    \/ OpenCsv
    \/ NextStep
    \/ StepStart
    \/ StepFail
    \/ Tick
    \/ TickFinish
    \/ Sleep
    \/ SleepOneSecond
    \/ PostLoop
    \/ Tripped
    \/ StepEnd
    \/ SafeShutdown
    \/ Finally
    \/ Close
    \/ RequestStop
    \/ OnQuit
    \/ AppExit

Spec == Init /\ [][Next]_vars

(***************************************************************************)
(* _safe_shutdown on its own: SpecSD starts at the entry of one call, for  *)
(* every reason run gives, and also records which commands raised.         *)
(***************************************************************************)
ShutdownReasons == TripReasons \cup {"UserRequested", "Exception", "ProfileCompleted"}

InitSD ==
    /\ settings = CHOOSE x \in SettingsSet : TRUE
    /\ args \in ArgsSet
    /\ pc = "sd"
    /\ pos = 1
    /\ ser = [c \in Controllers |-> TRUE]
    /\ opened = Controllers
    /\ stop_event = FALSE
    /\ quitting = FALSE
    /\ idx = 0
    /\ row = None
    /\ now = 0
    /\ step_start = 0
    /\ transition_start = 0
    /\ current_imbalance_limit = 0
    /\ rd = NoReadings
    /\ tickResult = NoResult
    /\ tickElapsed = 0
    /\ sleepLeft = 0
    /\ csv_writer = FALSE
    /\ current_csv_start = 0
    /\ log_file = Absent
    /\ sdRet = "finally"
    /\ sdLog = << >>
    /\ sdFailed = {}
    /\ \E reason \in ShutdownReasons : sdReasons = << reason >>
    /\ sdCompleted = 0
    /\ lastCmd = [to |-> None, cmd |-> None, val |-> NoVal, tog |-> 0]
    /\ stepPow = [c \in Controllers |-> NoVal]
    /\ started = 0
    /\ executed = << >>
    /\ ticks = 0
    /\ tripCount = 0
    /\ killedIn = None
    /\ imbalances = NoImbalances
    /\ raised = FALSE
    /\ cfgFailed = FALSE
    /\ exitCmds = {}
    /\ last_measurement_time = Absent
    /\ last_total_power = 0
    /\ last_total_current = 0
    /\ cumulative_energy_wh = ZeroHours
    /\ cumulative_capacity_ah = ZeroHours
    /\ tickLog = << >>
    /\ totals = NoTotals
    /\ ExtInit

SafeShutdownTraced ==
    \E ok \in BOOLEAN :
       /\ ShutdownCommand(ok)
       /\ sdFailed' = IF ok THEN sdFailed ELSE sdFailed \cup {pos}

NextSD == SafeShutdownTraced

SpecSD == InitSD /\ [][NextSD]_vars

(***************************************************************************)
(* The energy and capacity accumulators: SpecAcc is run on one two-step    *)
(* profile with a tick that also performs "Calculate totals" and           *)
(* "Calculate cumulative energy and capacity".                             *)
(***************************************************************************)
\* _calculate_energy_increment for one quantity: (last + current) / 2 times
\* the hours since the last tick, as a multiple of 1/7200.
EnergyIncrementRectangle(last, current, delta_seconds) ==
    [n |-> 2 * current * delta_seconds, d |-> 7200]

EnergyIncrement(last, current, delta_seconds) ==
    [n |-> (last + current) * delta_seconds, d |-> 7200]

\* x += y for two multiples of 1/7200
AddHours(x, y) == [n |-> x.n + y.n, d |-> 7200]

\* "Calculate cumulative energy and capacity" for the readings r at time t.
Accumulate(r, t) ==
    LET total_power == TotalOf(r.mp, r.sp)
        total_current == TotalOf(r.mi, r.si)
    IN /\ IF Present(last_measurement_time)
          THEN LET dt == t - Val(last_measurement_time) IN
               /\ cumulative_energy_wh' =
                     AddHours(cumulative_energy_wh,
                              EnergyIncrement(last_total_power, total_power, dt))
               /\ cumulative_capacity_ah' =
                     AddHours(cumulative_capacity_ah,
                              EnergyIncrement(last_total_current, total_current, dt))
          ELSE UNCHANGED << cumulative_energy_wh, cumulative_capacity_ah >>
       /\ last_measurement_time' = V(t)
       /\ last_total_power' = total_power
       /\ last_total_current' = total_current
       /\ tickLog' = Append(tickLog, [t |-> t, p |-> total_power,
                                      i |-> total_current, step |-> idx])

AccSamples ==
    { Rd(V(12), V(5), V(60), V(12), V(5), V(60)),      \* 120 W, 10 A
      Rd(V(12), V(4), V(50), V(12), V(4), V(48)),      \* 98 W, 8 A
      NoReadings,                                      \* 0 W, 0 A
      Rd(V(12), Absent, V(90), V(12), V(3), Absent),   \* 90 W, 3 A
      Rd(V(12), V(5), V(90), V(12), V(5), V(30)) }     \* 120 W, trips

AccSettings ==
    [ profile                 |-> << Fixed(300, 2), Fixed(101, 3) >>,
      cutoff_voltage          |-> 10,
      cutoff_safety_enabled   |-> TRUE,
      imbalance_check_enabled |-> TRUE,
      imbalance_limit         |-> 10,
      imbalance_transition    |-> 25,
      transition_duration     |-> 2,
      voltage_diff_limit      |-> 10 ]

InitAcc == Init /\ settings = AccSettings

TickAcc ==
    /\ TickBody(AccSamples)
    /\ IF pc' = "ticked" THEN Accumulate(rd', now) ELSE UNCHANGED accVars

NextAcc ==
    \/ Open
    \/ Idn
    \/ ConfigureParallel
    \/ OpenCsv
    \/ NextStep
    \/ StepStart
    \/ StepFail
    \/ TickAcc
    \/ TickFinish
    \/ Sleep
    \/ SleepOneSecond
    \/ PostLoop
    \/ Tripped
    \/ StepEnd
    \/ SafeShutdown
    \/ Finally
    \/ Close
    \/ RequestStop
    \/ OnQuit
    \/ AppExit

SpecAcc == InitAcc /\ [][NextAcc]_vars

(***************************************************************************)
(* _calculate_imbalances and the trip decision on their own: SpecImb       *)
(* applies them to every combination of absent, negative, zero and         *)
(* positive readings.                                                      *)
(***************************************************************************)
ReadingValues == {Absent, V(-2), V(0), V(3), V(12)}

AllReadings ==
    [ mv : ReadingValues, mi : ReadingValues, mp : ReadingValues,
      sv : ReadingValues, si : ReadingValues, sp : ReadingValues ]

\* The fields and locals a focused specification does not choose itself, as
\* __init__ and the head of run leave them.
RestInit ==
    /\ args \in ArgsSet
    /\ pos = 1
    /\ ser = [c \in Controllers |-> TRUE]
    /\ opened = Controllers
    /\ stop_event = FALSE
    /\ quitting = FALSE
    /\ now = 0
    /\ step_start = 0
    /\ transition_start = 0
    /\ tickResult = NoResult
    /\ tickElapsed = 0
    /\ sleepLeft = 0
    /\ csv_writer = FALSE
    /\ current_csv_start = 0
    /\ log_file = Absent
    /\ sdRet = None
    /\ sdLog = << >>
    /\ sdFailed = {}
    /\ sdReasons = << >>
    /\ sdCompleted = 0
    /\ lastCmd = [to |-> None, cmd |-> None, val |-> NoVal, tog |-> 0]
    /\ stepPow = [c \in Controllers |-> NoVal]
    /\ started = 1
    /\ executed = << 1 >>
    /\ ticks = 0
    /\ tripCount = 0
    /\ killedIn = None
    /\ imbalances = NoImbalances
    /\ raised = FALSE
    /\ cfgFailed = FALSE
    /\ exitCmds = {}
    /\ last_measurement_time = Absent
    /\ last_total_power = 0
    /\ last_total_current = 0
    /\ cumulative_energy_wh = ZeroHours
    /\ cumulative_capacity_ah = ZeroHours
    /\ tickLog = << >>
    /\ totals = NoTotals
    /\ ExtInit

\* A tick of the first step of a one-step profile, after the transition
\* window, about to evaluate the readings rd.
InitImb ==
    /\ settings \in {s \in SettingsSet : Len(s.profile) = 1}
    /\ idx = 1
    /\ row = settings.profile[1]
    /\ current_imbalance_limit = settings.imbalance_limit
    /\ rd \in AllReadings
    /\ pc = "calc"
    /\ RestInit

\* "Calculate totals", "Calculate imbalances" and the checks that follow
\* them in the tick.
CalculateStep ==
    /\ pc = "calc"
    /\ totals' = Totals(rd)
    /\ imbalances' = CalculateImbalances(rd)
    /\ tickResult' = SafetyCheck(rd, current_imbalance_limit, settings, row.cutoff)
    /\ pc' = "calculated"
    /\ UNCHANGED << cfgVars, accVars, extVars, outVars, histVars, ctlVars, stepVars, timeVars,
                    rd, tickElapsed, ticks, tripCount, csvVars, sdVars,
                    sleepLeft, ser, pos, lastCmd >>

NextImb == CalculateStep

SpecImb == InitImb /\ [][NextImb]_vars

(***************************************************************************)
(* Properties                                                              *)
(***************************************************************************)
IsZero(v) == v.n = 0

\* A command that belongs to step logic: a non-zero POW or LOAD ON.
StepCommand(c) == (c.cmd = "POW" /\ ~IsZero(c.val)) \/ c.cmd = "LOAD ON"

\* C1: when run returns after both connections were opened, _safe_shutdown
\* has been called and has run through all its commands, whatever ended the
\* run (user stop, trip, exception, completion of the last step).
C1_ShutdownBeforeFinish ==
    (pc = "finished" /\ opened = Controllers)
        => /\ sdCompleted >= 1
           /\ sdCompleted = Len(sdReasons)
           /\ Len(sdLog) = Len(ShutdownCmds)

C1_Witness ==
    /\ pc = "finished"
    /\ opened = Controllers
    /\ sdReasons = << "Exception" >>

\* Stage of a _safe_shutdown command.
Stage(c) ==
    CASE c.cmd = "POW" -> 1
      [] c.cmd \in {"LOAD OFF", "INPUT OFF"} -> 2
      [] c.cmd = "CONF:PARA OFF" -> 3
      [] c.cmd = "SYST:LOC" -> 4
      [] OTHER -> 0

\* C2: within one _safe_shutdown call the commands come in four stages
\* (POW 0; LOAD OFF then INPUT OFF; CONF:PARA OFF; SYST:LOC); a stage is
\* applied to both controllers before the next one starts and no command of
\* an earlier stage follows a command of a later one.
C2_StageOrder ==
    \A j \in 1..Len(sdLog) :
       /\ Stage(sdLog[j]) \in 1..4
       /\ sdLog[j].cmd = "POW" => sdLog[j].val = Zero
       /\ \A i \in 1..(j - 1) : Stage(sdLog[i]) <= Stage(sdLog[j])
       /\ \A k \in 1..(Stage(sdLog[j]) - 1) : \A c \in Controllers :
             \E i \in 1..(j - 1) : Stage(sdLog[i]) = k /\ sdLog[i].to = c
       /\ sdLog[j].cmd = "INPUT OFF" =>
             \E i \in 1..(j - 1) :
                sdLog[i].cmd = "LOAD OFF" /\ sdLog[i].to = sdLog[j].to

C2_Witness ==
    /\ sdCompleted = 2
    /\ Len(sdLog) = 10
    /\ sdLog[10] = Cmd(S, "SYST:LOC", NoVal)

\* C3: whichever of the ten commands raise, _safe_shutdown attempts every
\* one of them, for both controllers, and reaches its end: while it runs no
\* command is skipped, and when it has returned each of the five commands
\* has been attempted once on each controller.
C3_EveryCommandAttempted ==
    /\ pc = "sd" => (Len(sdLog) = pos - 1 /\ pos <= 10)
    /\ sdFailed \subseteq 1..Len(sdLog)
    /\ pc # "sd" =>
         /\ sdCompleted = 1
         /\ Len(sdLog) = 10
         /\ \A c \in Controllers :
            \A k \in {"POW", "LOAD OFF", "INPUT OFF", "CONF:PARA OFF", "SYST:LOC"} :
               Cardinality({i \in 1..Len(sdLog) :
                               sdLog[i].to = c /\ sdLog[i].cmd = k}) = 1

C3_Witness ==
    /\ pc # "sd"
    /\ sdFailed = {1, 3, 4, 7, 9}
    /\ Len(sdLog) = 10

\* C4: a safety trip leads to exactly one _safe_shutdown call in the run.
C4_OneShutdownPerTrip ==
    (pc = "finished" /\ tripCount >= 1) => Len(sdReasons) = 1

\* C5: once a _safe_shutdown has started, the worker executes no telemetry
\* tick, starts no profile step and writes neither a non-zero POW nor
\* LOAD ON.
C5_NoStepLogicAfterShutdown ==
    [][ Len(sdReasons) >= 1 =>
           /\ ticks' = ticks
           /\ started' = started
           /\ (lastCmd' # lastCmd => ~StepCommand(lastCmd')) ]_vars

C5_Witness ==
    /\ pc = "finished"
    /\ tripCount = 1
    /\ started < Len(settings.profile)

\* C6: a _safe_shutdown that has issued its first command is not ended
\* before its last command has been attempted.
C6_ShutdownNeverInterrupted ==
    ~(pc = "killed" /\ killedIn = "sd" /\ Len(sdLog) >= 1)

\* C7: every non-zero POW written is total_power / 2 of the step in
\* progress; the values written to master and slave at a step start are
\* equal and add up to the step's total.
C7_HalfPower ==
    /\ (lastCmd.cmd = "POW" /\ ~IsZero(lastCmd.val))
          => 2 * lastCmd.val.n = row.total_power * lastCmd.val.d
    /\ \A c \in Controllers :
          stepPow[c] # NoVal
             => 2 * stepPow[c].n = row.total_power * stepPow[c].d
    /\ (stepPow[M] # NoVal /\ stepPow[S] # NoVal)
          => /\ stepPow[M] = stepPow[S]
             /\ stepPow[M].n * stepPow[S].d + stepPow[S].n * stepPow[M].d
                   = row.total_power * stepPow[M].d * stepPow[S].d

C7_Witness ==
    /\ pc = "loop"
    /\ row.total_power = 101
    /\ stepPow[M] = [n |-> 101, d |-> 2]
    /\ stepPow[S] = [n |-> 101, d |-> 2]

PowerBreach(r, limit) ==
    Positive(r.mp) /\ Positive(r.sp) /\ GtPct(Imbalance(r.mp, r.sp), limit)
CurrentBreach(r, limit) ==
    Positive(r.mi) /\ Positive(r.si) /\ GtPct(Imbalance(r.mi, r.si), limit)
VoltageBreach(r, limit) ==
    Positive(r.mv) /\ Positive(r.sv) /\ GtPct(Imbalance(r.mv, r.sv), limit)
AtOrBelowCutoff(r) ==
    \/ (Present(r.mv) /\ Val(r.mv) <= settings.cutoff_voltage)
    \/ (Present(r.sv) /\ Val(r.sv) <= settings.cutoff_voltage)

\* C8: the tick's trip is decided in a fixed order, first match wins: a
\* power-imbalance breach gives PowerImbalance whatever else holds; else a
\* current-imbalance breach gives CurrentImbalance; else a voltage-imbalance
\* breach gives VoltageImbalance (imbalance checking enabled); else, with
\* cutoff safety enabled, a voltage at or below the cutoff gives
\* VoltageCutoff.
C8_TripOrder ==
    pc = "ticked" =>
       LET en == settings.imbalance_check_enabled
           p == PowerBreach(rd, current_imbalance_limit)
           c == CurrentBreach(rd, current_imbalance_limit)
           v == VoltageBreach(rd, settings.voltage_diff_limit)
           k == settings.cutoff_safety_enabled /\ AtOrBelowCutoff(rd)
       IN /\ (en /\ p) => tickResult.outcome = "PowerImbalance"
          /\ (en /\ ~p /\ c) => tickResult.outcome = "CurrentImbalance"
          /\ (en /\ ~p /\ ~c /\ v) => tickResult.outcome = "VoltageImbalance"
          /\ (~(en /\ (p \/ c \/ v)) /\ k)
                => tickResult.outcome = "VoltageCutoff"

\* The reading with a 20 % power imbalance and nothing else wrong.
Power20 == Rd(V(12), V(5), V(66), V(12), V(5), V(54))

\* C9: a tick uses imbalance_transition while the time since the step's
\* power change is within transition_duration and imbalance_limit once it
\* is past it; each step starts a new window.  With limits 10 % / 25 % a
\* 20 % power imbalance does not trip inside the window and trips
\* PowerImbalance after it.
C9_TransitionWindow ==
    pc = "ticked" =>
       /\ current_imbalance_limit =
             IF tickElapsed > settings.transition_duration
             THEN settings.imbalance_limit
             ELSE settings.imbalance_transition
       /\ tickElapsed = now - transition_start
       /\ (settings.imbalance_check_enabled /\ rd = Power20) =>
             IF tickElapsed > settings.transition_duration
             THEN tickResult.outcome = "PowerImbalance"
             ELSE tickResult.outcome = "None"

C9_Witness ==
    /\ pc = "ticked"
    /\ settings.imbalance_check_enabled
    /\ rd = Power20
    /\ tickElapsed > settings.transition_duration
    /\ tickResult.outcome = "PowerImbalance"

\* C10: with imbalance checking disabled no tick raises an imbalance trip
\* and no shutdown starts because of an imbalance: an imbalance above 50 %
\* (power, current) or 20 % (voltage) is logged as a warning and the tick
\* goes on (to the cutoff check, the row and the sample).
C10_DisabledOnlyWarns ==
    (pc = "ticked" /\ ~settings.imbalance_check_enabled) =>
       LET imb == CalculateImbalances(rd) IN
       /\ tickResult.outcome \in {"None", "VoltageCutoff"}
       /\ GtPct(imb.power, 50) <=> "power" \in tickResult.warnings
       /\ GtPct(imb.current, 50) <=> "current" \in tickResult.warnings
       /\ GtPct(imb.voltage, 20) <=> "voltage" \in tickResult.warnings

\* C11: a missing reading is never a trip condition by itself.  In a tick
\* where a reading of a pair is absent that pair's imbalance check does not
\* trip; VoltageCutoff is only raised by a voltage reading that is present
\* and at or below the cutoff; a tick with all six readings absent raises no
\* trip and goes on to the inter-poll delay (the only other way out of such
\* a tick is a row-file rotation that raises).
C11_AbsentNeverTrips ==
    /\ [](pc = "ticked" =>
            /\ (~Present(rd.mp) \/ ~Present(rd.sp))
                  => tickResult.outcome # "PowerImbalance"
            /\ (~Present(rd.mi) \/ ~Present(rd.si))
                  => tickResult.outcome # "CurrentImbalance"
            /\ (~Present(rd.mv) \/ ~Present(rd.sv))
                  => tickResult.outcome # "VoltageImbalance"
            /\ tickResult.outcome = "VoltageCutoff"
                  => \E x \in {rd.mv, rd.sv} :
                        Present(x) /\ Val(x) <= settings.cutoff_voltage
            /\ rd = NoReadings => tickResult.outcome = "None")
    /\ [][ (pc = "ticked" /\ rd = NoReadings /\ pc' \notin {"ticked", "killed"})
             => /\ tripCount' = tripCount
                /\ pc' = "sleep" \/ (RotationDue /\ raised') ]_vars

C11_Witness ==
    /\ pc = "ticked"
    /\ rd = NoReadings
    /\ settings.cutoff_safety_enabled
    /\ settings.imbalance_check_enabled
    /\ tickResult.outcome = "None"
    /\ ticks = 2

\* C12: the imbalance _calculate_imbalances reports for a pair is 0 whenever
\* one of the two readings is absent, zero or negative, for each of the
\* pairs power, current and voltage.
C12_ZeroUnlessBothPositive ==
    pc = "calculated" =>
       /\ ~(Positive(rd.mp) /\ Positive(rd.sp)) => IsZero(imbalances.power)
       /\ ~(Positive(rd.mi) /\ Positive(rd.si)) => IsZero(imbalances.current)
       /\ ~(Positive(rd.mv) /\ Positive(rd.sv)) => IsZero(imbalances.voltage)

\* The readings with master and slave exchanged.
Swap(r) == Rd(r.sv, r.si, r.sp, r.mv, r.mi, r.mp)

\* x = |a - b| / ((a + b) / 2) * 100 for a rational x and readings a, b.
IsImbalanceOf(x, a, b) ==
    x.n * (Val(a) + Val(b)) = Abs(Val(a) - Val(b)) * 200 * x.d

\* C13: the imbalance of a pair does not depend on which reading is the
\* master's: exchanging master and slave readings leaves the three reported
\* imbalances and the tick's trip decision unchanged, and for two positive
\* readings the imbalance is |a-b| / ((a+b)/2) * 100.
C13_Symmetric ==
    pc = "calculated" =>
       /\ imbalances = CalculateImbalances(Swap(rd))
       /\ tickResult.outcome =
             SafetyCheck(Swap(rd), current_imbalance_limit, settings,
                         row.cutoff).outcome
       /\ (Positive(rd.mp) /\ Positive(rd.sp))
             => IsImbalanceOf(imbalances.power, rd.mp, rd.sp)
       /\ (Positive(rd.mi) /\ Positive(rd.si))
             => IsImbalanceOf(imbalances.current, rd.mi, rd.si)
       /\ (Positive(rd.mv) /\ Positive(rd.sv))
             => IsImbalanceOf(imbalances.voltage, rd.mv, rd.sv)

C13_Witness ==
    /\ pc = "calculated"
    /\ rd.mp = V(3)
    /\ rd.sp = V(12)
    /\ imbalances.power = [n |-> 1800, d |-> 15]
    /\ tickResult.outcome = "PowerImbalance"

\* C14: a FixedDuration step is left when the time since its start reaches
\* duration_value * unit: when the step-exit power-down begins, exactly the
\* step's duration has elapsed, whatever the record interval.
C14_EndsAtDuration ==
    (pc = "stepend" /\ ~row.cutoff) => (now - step_start) = row.dur_seconds

\* C15: a tick of a RunUntilCutoff step that observes a voltage reading at
\* or below cutoff_voltage never leaves the step running: the worker does
\* not go on to the inter-poll delay and the next tick.
C15_CutoffEndsStep ==
    [][ (pc = "ticked" /\ row.cutoff /\ AtOrBelowCutoff(rd)) => pc' # "sleep" ]_vars

\* The power-down of a step exit: POW 0 and LOAD OFF for both controllers.
PowerDown ==
    { Cmd(c, "POW", Zero) : c \in Controllers }
        \cup { Cmd(c, "LOAD OFF", NoVal) : c \in Controllers }

\* C16: when the first command of a step other than the first one is about
\* to be sent, POW 0 and LOAD OFF have been commanded on both controllers
\* since the previous step's start, however that step was left.
C16_PowerDownBetweenSteps ==
    (pc = "stepstart" /\ pos = 1 /\ started >= 2) => PowerDown \subseteq exitCmds

\* C17: after a command of the conditioning (here the parallel
\* configuration run performs: remote, parallel role, parallel on, power
\* mode) has failed, no non-zero POW command is sent.
C17_FailedConditioningAborts ==
    cfgFailed => ~(lastCmd.cmd = "POW" /\ ~IsZero(lastCmd.val))

\* C18: when opening either connection fails, no step is started, no tick
\* runs, neither a non-zero POW nor LOAD ON is ever written, and when the
\* worker has finished both connections are closed.
C18_OpenFailure ==
    (pc # "open" /\ opened # Controllers) =>
       /\ started = 0
       /\ ticks = 0
       /\ ~StepCommand(lastCmd)
       /\ pc = "finished" => \A c \in Controllers : ~ser[c]

C18_Witness ==
    /\ pc = "finished"
    /\ opened = {M}
    /\ lastCmd.to = M
    /\ lastCmd.cmd = "SYST:LOC"

\* C19: an exception that leaves a tick is handled by run like a trip:
\* _safe_shutdown runs with the Exception reason and is complete when run
\* returns, after the exception no tick runs, no step starts and neither a
\* non-zero POW nor LOAD ON is written.
C19_ExceptionIsShutdown ==
    /\ [](raised =>
            /\ pc \in {"sd", "finally", "close", "finished", "killed"}
            /\ Len(sdReasons) >= 1
            /\ sdReasons[Len(sdReasons)] = "Exception"
            /\ pc = "finished" =>
                  /\ sdCompleted = Len(sdReasons)
                  /\ Len(sdLog) = Len(ShutdownCmds)
                  /\ \A c \in Controllers : \E i \in 1..Len(sdLog) :
                        sdLog[i] = Cmd(c, "POW", Zero))
    /\ [][ raised =>
             /\ started' = started
             /\ ticks' = ticks
             /\ idx' = idx
             /\ lastCmd' # lastCmd => ~StepCommand(lastCmd') ]_vars
    /\ [][ (pc = "ticked" /\ tickResult.outcome = "Exception"
               /\ pc' \notin {"ticked", "killed"})
             => (raised' /\ pc' = "sd") ]_vars

C19_Witness ==
    /\ pc = "finished"
    /\ raised
    /\ idx = 1
    /\ Len(settings.profile) = 2
    /\ sdCompleted = 1

RECURSIVE TrapezoidSum(_, _)
\* Sum for i = 2..n of (P[i-1] + P[i]) * (t[i] - t[i-1]) over the first n
\* entries of tickLog, P being the power: 7200 times the energy in Wh.
TrapezoidSum(log, n) ==
    IF n <= 1 THEN 0
    ELSE TrapezoidSum(log, n - 1)
            + (log[n - 1].p + log[n].p) * (log[n].t - log[n - 1].t)

RECURSIVE TrapezoidSumCurrent(_, _)
\* The same sum over the total current: 7200 times the capacity in Ah.
TrapezoidSumCurrent(log, n) ==
    IF n <= 1 THEN 0
    ELSE TrapezoidSumCurrent(log, n - 1)
            + (log[n - 1].i + log[n].i) * (log[n].t - log[n - 1].t)

\* C20: after N ticks the cumulative energy is the trapezoidal sum over
\* consecutive ticks, sum for i = 2..N of (P[i-1]+P[i])/2 * dt[i] in hours,
\* and the cumulative capacity the same sum over the total current; the
\* first tick adds nothing, and a step boundary between two ticks changes
\* nothing (tickLog runs over all steps of the run).
C20_Trapezoid ==
    /\ cumulative_energy_wh.n * 7200
          = TrapezoidSum(tickLog, Len(tickLog)) * cumulative_energy_wh.d
    /\ cumulative_capacity_ah.n * 7200
          = TrapezoidSumCurrent(tickLog, Len(tickLog)) * cumulative_capacity_ah.d
    /\ Len(tickLog) <= 1
          => (cumulative_energy_wh.n = 0 /\ cumulative_capacity_ah.n = 0)
    /\ Len(tickLog) = ticks
    /\ Len(tickLog) >= 1 =>
          /\ last_measurement_time = V(tickLog[Len(tickLog)].t)
          /\ last_total_power = tickLog[Len(tickLog)].p
          /\ last_total_current = tickLog[Len(tickLog)].i

C20_Witness ==
    /\ Len(tickLog) = 3
    /\ tickLog[1].step = 1
    /\ tickLog[2].step = 2
    /\ tickLog[1].p = 98
    /\ tickLog[2].p = 120
    /\ tickLog[3].p = 90
    /\ cumulative_energy_wh = [n |-> 856, d |-> 7200]
    /\ cumulative_capacity_ah = [n |-> 62, d |-> 7200]


(***************************************************************************)
(* _calculate_dq_dv on its own: SpecDq calls it with the voltages and      *)
(* capacities below in every order.  Voltages are in millivolts, so that   *)
(* the noise threshold of 0.01 V is 10.                                    *)
(***************************************************************************)
DqThreshold == 10

DqVoltages == {3000, 3004, 3010, 3025}

DqCapacities == {0, 1, 3}

\* "if abs(dV) < voltage_threshold"
SmallMoveNever(dV) == FALSE

SmallMove(dV) == Abs(dV) < DqThreshold

DqCall(v, c, value, voltage, valid) ==
    [ voltage |-> v, capacity |-> c,
      ret |-> [dq_dv |-> value, dq_dv_voltage |-> voltage, valid |-> valid] ]

CalculateDqDv(current_voltage, current_capacity) ==
    IF ~Present(last_avg_voltage)
    THEN /\ last_avg_voltage' = V(current_voltage)
         /\ last_capacity_ah' = current_capacity
         /\ dqCall' = DqCall(current_voltage, current_capacity,
                             Zero, [n |-> current_voltage, d |-> 1], FALSE)
         /\ UNCHANGED << dq_dv, dq_dv_voltage, dq_dv_valid >>
    ELSE LET dV == current_voltage - Val(last_avg_voltage)
             dQ == current_capacity - last_capacity_ah
         IN IF SmallMove(dV)
            THEN /\ dqCall' = DqCall(current_voltage, current_capacity,
                                     dq_dv, dq_dv_voltage, dq_dv_valid)
                 /\ UNCHANGED << last_avg_voltage, last_capacity_ah, dq_dv,
                                 dq_dv_voltage, dq_dv_valid >>
            ELSE /\ dq_dv' = [n |-> dQ, d |-> dV]
                 /\ dq_dv_voltage' =
                        [n |-> current_voltage + Val(last_avg_voltage), d |-> 2]
                 /\ last_avg_voltage' = V(current_voltage)
                 /\ last_capacity_ah' = current_capacity
                 /\ dq_dv_valid' = TRUE
                 /\ dqCall' = DqCall(current_voltage, current_capacity,
                                     dq_dv', dq_dv_voltage', TRUE)

InitDq ==
    /\ settings = AccSettings
    /\ idx = 1
    /\ row = settings.profile[1]
    /\ current_imbalance_limit = settings.imbalance_limit
    /\ rd = NoReadings
    /\ pc = "dqdv"
    /\ RestInit

DqDvStep ==
    /\ pc = "dqdv"
    /\ \E v \in DqVoltages, c \in DqCapacities : CalculateDqDv(v, c)
    /\ UNCHANGED << cfgVars, accVars, outVars, plot_times, qry, appVars, histVars,
                    ctlVars, stepVars, timeVars, tickVars, csvVars, sdVars,
                    sleepLeft, ser, pc, pos, lastCmd >>

NextDq == DqDvStep

SpecDq == InitDq /\ [][NextDq]_vars

\* C21: the first _calculate_dq_dv call sets the baseline and reports
\* invalid; a later call whose voltage is less than 0.01 V (10 mV) from the
\* baseline leaves the stored dQ/dV, its voltage, the validity flag and the
\* baseline as they are; a call at 0.01 V or more stores dQ/dV at the
\* midpoint voltage, moves the baseline to the call's voltage and capacity
\* and sets the flag.  The flag, once true, stays true.
C21_DqDvThreshold ==
    /\ [][ LET v == dqCall'.voltage
               c == dqCall'.capacity
           IN IF last_avg_voltage = Absent
              THEN /\ last_avg_voltage' = V(v)
                   /\ last_capacity_ah' = c
                   /\ ~dqCall'.ret.valid
                   /\ ~dq_dv_valid'
                   /\ UNCHANGED << dq_dv, dq_dv_voltage >>
              ELSE IF Abs(v - Val(last_avg_voltage)) < 10
              THEN /\ UNCHANGED << dq_dv, dq_dv_voltage, dq_dv_valid,
                                   last_avg_voltage, last_capacity_ah >>
                   /\ dqCall'.ret = [dq_dv |-> dq_dv,
                                     dq_dv_voltage |-> dq_dv_voltage,
                                     valid |-> dq_dv_valid]
              ELSE /\ dq_dv'.d # 0
                   /\ dq_dv'.n * (v - Val(last_avg_voltage))
                         = (c - last_capacity_ah) * dq_dv'.d
                   /\ 2 * dq_dv_voltage'.n
                         = (v + Val(last_avg_voltage)) * dq_dv_voltage'.d
                   /\ last_avg_voltage' = V(v)
                   /\ last_capacity_ah' = c
                   /\ dq_dv_valid'
                   /\ dqCall'.ret.valid ]_vars
    /\ [][ dq_dv_valid => dq_dv_valid' ]_vars

\* A call inside the threshold after a value has been stored: the baseline
\* is not the voltage of the call.
C21_Witness ==
    /\ pc = "dqdv"
    /\ dq_dv_valid
    /\ V(dqCall.voltage) # last_avg_voltage
    /\ dqCall.ret.valid


\* t is the sum of a and b when both are present, the one that is present
\* when only one is, and 0 when neither is.
FollowsPresent(t, a, b) ==
    /\ (Present(a) /\ Present(b)) => t = Val(a) + Val(b)
    /\ (Present(a) /\ ~Present(b)) => t = Val(a)
    /\ (~Present(a) /\ Present(b)) => t = Val(b)
    /\ (~Present(a) /\ ~Present(b)) => t = 0

\* The rational m is the mean of those of a and b that are present.
MeanOfPresent(m, a, b) ==
    LET count == (IF Present(a) THEN 1 ELSE 0) + (IF Present(b) THEN 1 ELSE 0)
        sum == (IF Present(a) THEN Val(a) ELSE 0) + (IF Present(b) THEN Val(b) ELSE 0)
    IN count > 0 => (m.d > 0 /\ m.n * count = sum * m.d)

\* C22: in every tick total_power and total_current are master + slave when
\* both readings are present, the present one when only one is, and 0 when
\* none is; avg_voltage is the mean of the voltage readings that are
\* present.
C22_TotalsFollowReadings ==
    pc \in {"calculated", "ticked"} =>
        /\ FollowsPresent(totals.total_power, rd.mp, rd.sp)
        /\ FollowsPresent(totals.total_current, rd.mi, rd.si)
        /\ MeanOfPresent(totals.avg_voltage, rd.mv, rd.sv)

\* A tick with one power reading absent, both voltages present and
\* different, and a negative current.
C22_Witness ==
    /\ pc = "calculated"
    /\ Present(rd.mp) /\ ~Present(rd.sp) /\ totals.total_power = 12
    /\ rd.mv = V(3) /\ rd.sv = V(12) /\ totals.avg_voltage = [n |-> 15, d |-> 2]
    /\ rd.mi = V(-2) /\ rd.si = V(3) /\ totals.total_current = 1


(***************************************************************************)
(* Row files and the plot queue: SpecFeed is a run on one two-step profile *)
(* with the GUI's _periodic_plot_poll taking samples from plot_queue while *)
(* the worker publishes.  A row and a sample are identified by the number  *)
(* of their tick.                                                          *)
(***************************************************************************)
FeedSamples ==
    { Rd(V(12), V(5), V(60), V(12), V(5), V(60)),      \* balanced
      NoReadings,                                      \* every query failed
      Rd(V(12), V(5), V(90), V(12), V(5), V(30)) }     \* power imbalance, trips

\* record_interval_s and rotate_hours: a rotation every second tick, and
\* rotate_hours = 0, a rotation at every tick.
FeedArgs ==
    { [ record_interval_s |-> 1, rotate_seconds |-> 2 ],
      [ record_interval_s |-> 2, rotate_seconds |-> 0 ] }

InitFeed ==
    /\ settings = AccSettings
    /\ args \in FeedArgs
    /\ StartOfRun

TickFeed == TickBody(FeedSamples) /\ UNCHANGED accVars

\* One plot_queue.get_nowait() of _periodic_plot_poll and the append to the
\* plot arrays; on queue.Empty the callback ends and is scheduled again.
PeriodicPlotPoll ==
    /\ plot_queue # << >>
    /\ plot_times' = Append(plot_times, Head(plot_queue))
    /\ plot_queue' = Tail(plot_queue)
    /\ UNCHANGED << cfgVars, accVars, dqVars, qry, appVars, csvFiles, histVars,
                    ctlVars, stepVars, timeVars, tickVars, csvVars, sdVars,
                    sleepLeft, ser, pc, pos, lastCmd >>

NextFeed ==
    \/ Open
    \/ Idn
    \/ ConfigureParallel
    \/ OpenCsv
    \/ NextStep
    \/ StepStart
    \/ StepFail
    \/ TickFeed
    \/ TickFinish
    \/ Sleep
    \/ SleepOneSecond
    \/ PostLoop
    \/ Tripped
    \/ StepEnd
    \/ SafeShutdown
    \/ Finally
    \/ Close
    \/ RequestStop
    \/ OnQuit
    \/ AppExit
    \/ PeriodicPlotPoll

SpecFeed == InitFeed /\ [][NextFeed]_vars

RECURSIVE RowsOf(_)
\* The rows of the row files, concatenated in the order the files were opened
RowsOf(files) ==
    IF files = << >> THEN << >>
    ELSE files[1].rows \o RowsOf(Tail(files))

\* q is 1, 2, ..., Len(q)
Consecutive(q) == \A i \in DOMAIN q : q[i] = i

IsPrefix(p, q) == Len(p) <= Len(q) /\ \A i \in DOMAIN p : p[i] = q[i]

StrictlyIncreasing(q) == \A i, j \in DOMAIN q : i < j => q[i] < q[j]

C24_RowPerTick ==
    (csv_writer /\ pc # "ticked") => Len(RowsOf(csvFiles)) = ticks

\* C25: a tick that has evaluated its readings without a trip or an
\* exception can always publish and go on to the inter-poll delay, whatever
\* plot_queue holds and whatever the GUI has taken from it.
C25_PublishNeverBlocks ==
    (pc = "ticked" /\ tickResult.outcome \notin (TripReasons \cup {"Exception"}))
        => ENABLED (TickFinish /\ pc' = "sleep")

\* The worker has published three samples and gone on while the GUI has
\* taken none of them.
C25_Witness ==
    /\ pc = "sleep"
    /\ Len(plot_queue) >= 3
    /\ plot_times = << >>

C27_StopDuringDelay ==
    /\ [][ stop_event => ticks' = ticks ]_vars
    /\ [][ (stop_event /\ now' # now)
              => (pc = "sleeping" /\ pc' = "sleep" /\ now' = now + 1) ]_vars
    /\ [][ (stop_event /\ pc = "sleeping" /\ pc' # pc)
              => pc' \in {"sleep", "killed"} ]_vars
    /\ [][ (stop_event /\ pc = "sleep" /\ pc' # pc)
              => pc' \in {"postloop", "killed"} ]_vars
    /\ [][ (stop_event /\ pc = "postloop" /\ pc' # pc)
              => \/ pc' = "killed"
                 \/ /\ pc' = "sd"
                    /\ sdReasons' = Append(sdReasons, "UserRequested") ]_vars

\* A stop request arrived during a sub-sleep of the first delay of a run:
\* the shutdown has started with a sub-sleep of the delay left undone, one
\* second after the tick.
C27_Witness ==
    /\ pc = "sd"
    /\ sdReasons = << "UserRequested" >>
    /\ sleepLeft = 1
    /\ ticks = 1
    /\ now = 1
    /\ ~quitting


\* C28: a worker that has opened both connections and whose stop flag has
\* been set does not end before a _safe_shutdown has run to its last
\* command.
C28_StopNeverLost ==
    (stop_event /\ opened = Controllers /\ pc \in {"finished", "killed"})
        => sdCompleted >= 1


(***************************************************************************)
(* The profile editor: SpecGui is a run started on a one-step profile with *)
(* the GUI's row buttons pressed while the worker iterates                 *)
(* settings.profile, the list object the editor changes in place.          *)
(***************************************************************************)
MaxRows == 2     \* Add Row is not pressed on a profile of this many rows

GuiSettings == [AccSettings EXCEPT !.profile = << Fixed(300, 2) >>]

GuiSamples ==
    { Rd(V(12), V(5), V(60), V(12), V(5), V(60)),      \* balanced
      Rd(V(12), V(5), V(90), V(12), V(5), V(30)) }     \* power imbalance, trips

InitGui ==
    /\ settings = GuiSettings
    /\ args \in ArgsSet
    /\ StartOfRun

TickGui == TickBody(GuiSamples) /\ UNCHANGED accVars

\* ProfileRow(total_power=100.0, duration_value=1, duration_unit="hours")
NewRow == Fixed(100, 3600)

RemoveAt(q, i) == [ k \in 1..(Len(q) - 1) |-> IF k < i THEN q[k] ELSE q[k + 1] ]

SwapAt(q, i, j) ==
    [ k \in DOMAIN q |-> IF k = i THEN q[j] ELSE IF k = j THEN q[i] ELSE q[k] ]

\* What a row button leaves alone: everything but the profile.
EditProfile(p) ==
    /\ settings' = [settings EXCEPT !.profile = p]
    /\ UNCHANGED << args, opened, accVars, extVars, outVars, histVars,
                    ctlVars, stepVars, timeVars, tickVars, csvVars, sdVars,
                    sleepLeft, ser, pc, pos, lastCmd >>

AddRow ==
    /\ Len(settings.profile) < MaxRows
    /\ EditProfile(Append(settings.profile, NewRow))

\* index is 0-based as in the handler
DeleteRow ==
    \E index \in 0..(Len(settings.profile) - 1) :
        EditProfile(RemoveAt(settings.profile, index + 1))

\* _move_up(index) and _move_down(index - 1): the same swap of two
\* neighbours
MoveRow ==
    \E index \in 1..(Len(settings.profile) - 1) :
        EditProfile(SwapAt(settings.profile, index, index + 1))

ClearAllRows ==
    /\ settings.profile # << >>
    /\ EditProfile(<< >>)

NextGui ==
    \/ Open
    \/ Idn
    \/ ConfigureParallel
    \/ OpenCsv
    \/ NextStep
    \/ StepStart
    \/ StepFail
    \/ TickGui
    \/ TickFinish
    \/ Sleep
    \/ SleepOneSecond
    \/ PostLoop
    \/ Tripped
    \/ StepEnd
    \/ SafeShutdown
    \/ Finally
    \/ Close
    \/ RequestStop
    \/ AddRow
    \/ DeleteRow
    \/ MoveRow
    \/ ClearAllRows

SpecGui == InitGui /\ [][NextGui]_vars

\* C29: whatever the GUI does while the worker is alive, the step the
\* worker executes is step idx of the profile the test was started with.
C29_ProfileFixedAtStart ==
    pc \in {"stepstart", "loop", "ticked", "sleep", "sleeping"} =>
        /\ idx <= Len(GuiSettings.profile)
        /\ row = GuiSettings.profile[idx]


(***************************************************************************)
(* The application around the worker: SpecApp follows App._start, the      *)
(* conditioning thread, _start_test_after_conditioning, _stop and          *)
(* _poll_worker_finish, with the worker of each test running between them. *)
(***************************************************************************)
MaxTests == 2    \* Start Test is not confirmed more often than this

\* The GUI before the first test: Start enabled, Stop disabled.
AppIdle ==
    /\ start_btn = "normal"
    /\ stop_btn = "disabled"
    /\ cond = "idle"
    /\ condSer = {}
    /\ polling = FALSE
    /\ tests = 0
    /\ condLog = << >>

InitApp ==
    /\ settings = GuiSettings
    /\ args \in ArgsSet
    /\ pc = "unstarted"
    /\ WorkerFields
    /\ DqInit
    /\ FeedInit
    /\ AppIdle
    /\ QryInit

workerVars == << pc, pos, ser, opened, idx, row, started, stepPow, executed,
                 step_start,
                 transition_start, current_imbalance_limit, tickVars, csvVars,
                 sdVars, sleepLeft, lastCmd, killedIn, accVars, histVars,
                 dqVars >>

\* "if self.worker and self.worker.is_alive(): ... return"
StartWithoutGuard == TRUE

StartGuard == ~WorkerAlive

\* App._start, confirmed by the user: both buttons are disabled and the
\* conditioning thread is started.
StartClicked ==
    /\ start_btn = "normal"
    /\ StartGuard
    /\ tests < MaxTests
    /\ tests' = tests + 1
    /\ start_btn' = "disabled"
    /\ stop_btn' = "disabled"
    /\ cond' = "open"
    /\ condLog' = << >>
    /\ UNCHANGED << settings, args, now, quitting, stop_event, workerVars,
                    outVars, plot_times, qry, condSer, polling >>

\* _condition_and_start: master.open(); slave.open()
CondOpen ==
    /\ cond = "open"
    /\ \E r \in {"ok", "master fails", "slave fails"} :
         /\ condSer' = IF r = "ok" THEN Controllers
                       ELSE IF r = "slave fails" THEN {M} ELSE {}
         /\ cond' = IF r = "ok" THEN "commands" ELSE "safe"
    /\ UNCHANGED << settings, args, now, quitting, stop_event, workerVars,
                    outVars, plot_times, qry, start_btn, stop_btn, polling, tests, condLog >>

\* _condition_and_start: one command of steps 1 to 6 on the thread's own
\* connections; send_cmd may raise, set_mode_cw catches what it raises.
\* The read-back after the last command cannot raise.
CondCommands ==
    /\ cond = "commands"
    /\ LET c == CondCmds[Len(condLog) + 1] IN
       \E ok \in BOOLEAN :
          /\ c.cmd = "MODE:CW" => ok
          /\ IF ok
             THEN /\ condLog' = Append(condLog, c)
                  /\ cond' = IF Len(condLog') = Len(CondCmds)
                             THEN "close_ok" ELSE "commands"
             ELSE /\ cond' = "safe"
                  /\ UNCHANGED condLog
    /\ UNCHANGED << settings, args, now, quitting, stop_event, workerVars,
                    outVars, plot_times, qry, start_btn, stop_btn, condSer,
                    polling, tests >>

\* _condition_and_start, except branch: best-effort POW 0, LOAD OFF, LOCAL
CondSafe ==
    /\ cond = "safe"
    /\ cond' = "close_failed"
    /\ UNCHANGED << settings, args, now, quitting, stop_event, workerVars,
                    outVars, plot_times, qry, start_btn, stop_btn, condSer,
                    polling, tests, condLog >>

\* _condition_and_start, finally: both connections are closed, then the
\* callback for the main thread is scheduled with after(0, ...).
CondClose ==
    /\ cond \in {"close_ok", "close_failed"}
    /\ condSer' = {}
    /\ cond' = IF cond = "close_ok" THEN "ok" ELSE "failed"
    /\ UNCHANGED << settings, args, now, quitting, stop_event, workerVars,
                    outVars, plot_times, qry, start_btn, stop_btn, polling, tests, condLog >>

\* MasterSlaveWorkerThread(self.settings, ...).start(): a new thread object
\* with the fields of __init__.
NewWorker ==
    /\ pc' = "open"
    /\ pos' = 1
    /\ ser' = [c \in Controllers |-> FALSE]
    /\ opened' = {}
    /\ stop_event' = FALSE
    /\ idx' = 0
    /\ row' = None
    /\ step_start' = 0
    /\ transition_start' = 0
    /\ current_imbalance_limit' = 0
    /\ rd' = NoReadings
    /\ tickResult' = NoResult
    /\ tickElapsed' = 0
    /\ sleepLeft' = 0
    /\ csv_writer' = FALSE
    /\ current_csv_start' = 0
    /\ log_file' = Absent
    /\ sdRet' = None
    /\ sdLog' = << >>
    /\ sdFailed' = {}
    /\ sdReasons' = << >>
    /\ sdCompleted' = 0
    /\ lastCmd' = [to |-> None, cmd |-> None, val |-> NoVal, tog |-> 0]
    /\ stepPow' = [c \in Controllers |-> NoVal]
    /\ started' = 0
    /\ executed' = << >>
    /\ ticks' = 0
    /\ tripCount' = 0
    /\ killedIn' = None
    /\ imbalances' = NoImbalances
    /\ raised' = FALSE
    /\ cfgFailed' = FALSE
    /\ exitCmds' = {}
    /\ last_measurement_time' = Absent
    /\ last_total_power' = 0
    /\ last_total_current' = 0
    /\ cumulative_energy_wh' = ZeroHours
    /\ cumulative_capacity_ah' = ZeroHours
    /\ tickLog' = << >>
    /\ totals' = NoTotals
    /\ last_avg_voltage' = Absent
    /\ last_capacity_ah' = 0
    /\ dq_dv' = Zero
    /\ dq_dv_voltage' = Zero
    /\ dq_dv_valid' = FALSE
    /\ dqCall' = [voltage |-> 0, capacity |-> 0, ret |-> None]

\* _start_test_after_conditioning: the worker is created and started, the
\* buttons are switched and the plot arrays cleared.  An exception before
\* the worker exists, or after it has been started, ends in
\* _conditioning_failed, which enables Start again.
StartTestAfterConditioning ==
    /\ cond = "ok"
    /\ cond' = "idle"
    /\ \E r \in {"started", "raises before start", "raises after start"} :
         /\ IF r = "raises before start"
            THEN UNCHANGED << workerVars, stop_event, plot_times >>
            ELSE NewWorker /\ plot_times' = << >>
         /\ IF r = "started"
            THEN start_btn' = "disabled" /\ stop_btn' = "normal"
            ELSE start_btn' = "normal" /\ stop_btn' = "disabled"
    /\ UNCHANGED << settings, args, now, quitting, outVars, condSer, polling,
                    tests, condLog, qry >>

\* _conditioning_failed
ConditioningFailed ==
    /\ cond = "failed"
    /\ cond' = "idle"
    /\ start_btn' = "normal"
    /\ stop_btn' = "disabled"
    /\ UNCHANGED << settings, args, now, quitting, stop_event, workerVars,
                    outVars, plot_times, qry, condSer, polling, tests, condLog >>

\* App._stop: with a live worker request_stop() and the first
\* _poll_worker_finish is scheduled; with a worker that has ended the
\* buttons are reset.
StopClicked ==
    /\ stop_btn = "normal"
    /\ pc # "unstarted"
    /\ stop_btn' = "disabled"
    /\ IF WorkerAlive
       THEN /\ stop_event' = TRUE
            /\ polling' = TRUE
            /\ UNCHANGED start_btn
       ELSE /\ start_btn' = "normal"
            /\ UNCHANGED << stop_event, polling >>
    /\ UNCHANGED << settings, args, now, quitting, workerVars, outVars,
                    plot_times, qry, cond, condSer, tests, condLog >>

\* _poll_worker_finish finding the worker ended: _finalize_stop.  While the
\* worker is alive the callback only schedules itself again.
PollWorkerFinish ==
    /\ polling
    /\ ~WorkerAlive
    /\ polling' = FALSE
    /\ start_btn' = "normal"
    /\ stop_btn' = "disabled"
    /\ UNCHANGED << settings, args, now, quitting, stop_event, workerVars,
                    outVars, plot_times, qry, cond, condSer, tests, condLog >>

NextApp ==
    \/ StartClicked
    \/ CondOpen
    \/ CondCommands
    \/ CondSafe
    \/ CondClose
    \/ StartTestAfterConditioning
    \/ ConditioningFailed
    \/ StopClicked
    \/ PollWorkerFinish
    \/ Open
    \/ Idn
    \/ ConfigureParallel
    \/ OpenCsv
    \/ NextStep
    \/ StepStart
    \/ StepFail
    \/ TickGui
    \/ TickFinish
    \/ Sleep
    \/ SleepOneSecond
    \/ PostLoop
    \/ Tripped
    \/ StepEnd
    \/ SafeShutdown
    \/ Finally
    \/ Close

SpecApp == InitApp /\ [][NextApp]_vars

ConditioningActive ==
    cond \in {"open", "commands", "safe", "close_ok", "close_failed"}

\* C30: no port is open in the conditioning thread and in the worker at the
\* same time; the conditioning thread runs only while no worker is alive
\* and only with Start disabled; a test is started, and a worker created,
\* only while no worker is alive, and the worker is created only after the
\* conditioning thread has closed its connections.
C30_SingleOwner ==
    /\ [] (\A c \in Controllers : ~(c \in condSer /\ ser[c]))
    /\ [] (ConditioningActive => (~WorkerAlive /\ start_btn = "disabled"))
    /\ [] (cond = "ok" => (~WorkerAlive /\ condSer = {}))
    /\ [] (WorkerAlive => condSer = {})
    /\ [][ tests' > tests => ~WorkerAlive ]_vars
    /\ [][ (pc' = "open" /\ pc # "open") => (~WorkerAlive /\ condSer = {}) ]_vars

\* The conditioning thread of the second test holds both ports after the
\* worker of the first test has ended and closed its own.
C30_Witness ==
    /\ tests = 2
    /\ cond = "commands"
    /\ condSer = Controllers
    /\ pc = "finished"
    /\ sdCompleted >= 1


\* ---------------------------------------------------------------------
\* Conditioning command order
\* ---------------------------------------------------------------------

\* The command is one that assigns a parallel role to its controller.
IsRoleCmd(c) == c.cmd \in {"CONF:PARA:MODE MASTER", "CONF: PARA:MODE SLAVE"}

\* Both roles have been written among the first n conditioning commands.
RolesConfigured(n) ==
    \A ctl \in Controllers :
       \E j \in 1..n : IsRoleCmd(condLog[j]) /\ condLog[j].to = ctl

\* C31: during conditioning the parallel roles (one master, one slave) are
\* written before parallel mode is enabled and before the load outputs are
\* enabled: every CONF:PARA ON and every LOAD ON of the conditioning thread
\* comes after a role command to each controller.
C31_RolesBeforeParallelAndLoad ==
    \A i \in 1..Len(condLog) :
       condLog[i].cmd \in {"CONF:PARA ON", "LOAD ON"} => RolesConfigured(i - 1)

(***************************************************************************)
(* InstrumentController.query_float                                        *)
(***************************************************************************)

\* "attempts: int = 3"
QueryAttempts == 3

\* The characters of the responses considered, and the value of a digit.
Digits == {"1", "2", "5"}

DigitVal(c) == IF c = "1" THEN 1 ELSE IF c = "2" THEN 2 ELSE 5

\* Tokens of a response line, each a sequence of characters.
QTokens ==
    { << "1", "2" >>, << "1", ",", "2" >>, << "2", ".", "5" >>,
      << "x" >>, << "," >>, << "." >>, << "1", "x" >> }

\* A stripped response line split at white space; << >> stands for the
\* None and the empty string read_response can return.
QResponses ==
    { << >> } \cup { << t >> : t \in QTokens }
              \cup { << << "x" >>, << "1", "2" >> >>,
                     << << "5" >>, << "x" >> >> }

\* What one round meets: send_cmd raising, or the line read_response gives.
QueryRounds ==
    { [write |-> FALSE, resp |-> << >>] }
       \cup { [write |-> TRUE, resp |-> r] : r \in QResponses }

\* token.replace(",", "")
StripCommas(tok) == SelectSeq(tok, LAMBDA c : c # ",")

RECURSIVE NumberOf(_)
\* The integer a sequence of digits writes.
NumberOf(ds) ==
    IF ds = << >> THEN 0
    ELSE NumberOf(SubSeq(ds, 1, Len(ds) - 1)) * 10 + DigitVal(ds[Len(ds)])

RECURSIVE Pow10(_)
Pow10(n) == IF n = 0 THEN 1 ELSE 10 * Pow10(n - 1)

\* float(token) on tokens of digits, "." and other characters: the value
\* as a fraction, or Absent for ValueError.
ParseFloat(tok) ==
    LET dots   == { i \in DOMAIN tok : tok[i] = "." }
        digits == SelectSeq(tok, LAMBDA c : c \in Digits)
        after  == IF dots = {} THEN 0
                  ELSE Len(tok) - (CHOOSE i \in dots : TRUE)
    IN  IF /\ \A i \in DOMAIN tok : tok[i] \in Digits \cup {"."}
           /\ Cardinality(dots) <= 1
           /\ digits # << >>
        THEN V([n |-> NumberOf(digits), d |-> Pow10(after)])
        ELSE Absent

\* The body of one round: Absent for "continue", otherwise the value
\* returned.
RoundValue(o) ==
    IF ~o.write THEN Absent
    ELSE IF o.resp = << >> THEN Absent
    ELSE ParseFloat(StripCommas(o.resp[1]))

MoreRoundsAfterWriteFailure(q) ==
    Cardinality({ i \in DOMAIN q.rounds : q.rounds[i].write }) < q.attempts

\* "for _ in range(attempts)"
MoreRounds(q) == Len(q.rounds) < q.attempts

\* A call query_float(qcmd, attempts)
QueryFloatStart ==
    /\ pc = "query"
    /\ qry.state = "idle"
    /\ \E a \in 0..QueryAttempts :
         qry' = [attempts |-> a, rounds |-> << >>, state |-> "running",
                 ret |-> Absent]
    /\ UNCHANGED << cfgVars, accVars, outVars, dqVars, plot_times, appVars,
                    histVars, ctlVars, stepVars, timeVars, tickVars, csvVars,
                    sdVars, sleepLeft, ser, pc, pos, lastCmd >>

\* One pass of the loop body.
QueryRound ==
    /\ pc = "query"
    /\ qry.state = "running"
    /\ MoreRounds(qry)
    /\ \E o \in QueryRounds :
         qry' = [qry EXCEPT !.rounds = Append(@, o),
                            !.state = IF RoundValue(o) = Absent
                                      THEN "running" ELSE "returned",
                            !.ret = RoundValue(o)]
    /\ UNCHANGED << cfgVars, accVars, outVars, dqVars, plot_times, appVars,
                    histVars, ctlVars, stepVars, timeVars, tickVars, csvVars,
                    sdVars, sleepLeft, ser, pc, pos, lastCmd >>

\* "return None" after the loop
QueryReturnNone ==
    /\ pc = "query"
    /\ qry.state = "running"
    /\ ~MoreRounds(qry)
    /\ qry' = [qry EXCEPT !.state = "returned", !.ret = Absent]
    /\ UNCHANGED << cfgVars, accVars, outVars, dqVars, plot_times, appVars,
                    histVars, ctlVars, stepVars, timeVars, tickVars, csvVars,
                    sdVars, sleepLeft, ser, pc, pos, lastCmd >>

InitQry ==
    /\ settings = AccSettings
    /\ idx = 1
    /\ row = settings.profile[1]
    /\ current_imbalance_limit = settings.imbalance_limit
    /\ rd = NoReadings
    /\ pc = "query"
    /\ RestInit

NextQry ==
    \/ QueryFloatStart
    \/ QueryRound
    \/ QueryReturnNone

SpecQry == InitQry /\ [][NextQry]_vars

\* The round answers the query: it was written, a line came back and the
\* first token of the line, commas removed, is a number.
Answers(o) ==
    /\ o.write
    /\ o.resp # << >>
    /\ ParseFloat(StripCommas(o.resp[1])) # Absent

\* C32: query_float makes at most `attempts` send-and-read rounds; a failed
\* write, an empty response and an unparsable response each use one round;
\* it returns the number of the first round that answers, having made no
\* round after it, and returns absent when all `attempts` rounds are used
\* without an answer.
C32_QueryFloatBounded ==
    /\ Len(qry.rounds) <= qry.attempts
    /\ \A i \in 1..(Len(qry.rounds) - 1) : ~Answers(qry.rounds[i])
    /\ qry.state = "running" =>
          \A i \in DOMAIN qry.rounds : ~Answers(qry.rounds[i])
    /\ qry.state = "returned" =>
          IF qry.rounds # << >> /\ Answers(qry.rounds[Len(qry.rounds)])
          THEN /\ qry.ret # Absent
               /\ qry.ret = ParseFloat(StripCommas(
                                 qry.rounds[Len(qry.rounds)].resp[1]))
          ELSE /\ qry.ret = Absent
               /\ Len(qry.rounds) = qry.attempts

\* A call that used all three rounds on a failed write, an empty line and
\* an unparsable line has returned absent.
C32_Witness ==
    /\ qry.state = "returned"
    /\ qry.ret = Absent
    /\ qry.attempts = QueryAttempts
    /\ Len(qry.rounds) = QueryAttempts
    /\ ~qry.rounds[1].write
    /\ qry.rounds[2] = [write |-> TRUE, resp |-> << >>]
    /\ qry.rounds[3] = [write |-> TRUE, resp |-> << << "1", "x" >> >>]

\* ---------------------------------------------------------------------
\* Step-start failure and the cutoff check
\* ---------------------------------------------------------------------

\* C33: after a write failure in a step's "set power and enable" commands
\* the worker starts no shutdown and goes on to the telemetry ticks of that
\* same step: the failure branch is left into the step's tick loop.
C33_FailedStartStillTicks ==
    [][ (pc = "stepfail" /\ pc' \notin {"stepfail", "killed"})
           => (pc' = "loop" /\ idx' = idx) ]_vars

ImbalanceReasons == {"PowerImbalance", "CurrentImbalance", "VoltageImbalance"}

\* C34: with cutoff safety enabled, in a tick of a step of either type a
\* present voltage reading at or below cutoff_voltage and no imbalance trip
\* give the tick the outcome VoltageCutoff (which starts safe-shutdown);
\* with cutoff safety disabled no tick has the outcome VoltageCutoff.
C34_CutoffEveryStepType ==
    pc = "ticked" =>
       /\ ( /\ settings.cutoff_safety_enabled
            /\ AtOrBelowCutoff(rd)
            /\ tickResult.outcome \notin ImbalanceReasons )
             => tickResult.outcome = "VoltageCutoff"
       /\ ~settings.cutoff_safety_enabled
             => tickResult.outcome # "VoltageCutoff"

\* ---------------------------------------------------------------------
\* Rotation of the row file and of the log file
\* ---------------------------------------------------------------------

C37_NothingLeftOpen ==
    pc = "finished" =>
       /\ \A c \in Controllers : ~ser[c]
       /\ ~csv_writer
       /\ log_file = Absent

\* The run has finished after a trip, having held both connections, a row
\* file with rows in it and (until the finally block) a log file.
C37_Witness ==
    /\ pc = "finished"
    /\ opened = Controllers
    /\ tripCount > 0
    /\ csvFiles # << >>
    /\ RowsOf(csvFiles) # << >>
    /\ \A c \in Controllers : ~ser[c]

\* ---------------------------------------------------------------------
\* The nominal run
\* ---------------------------------------------------------------------

\* Every step of the profile is a FixedDuration step.
FixedOnly == \A i \in DOMAIN settings.profile : ~settings.profile[i].cutoff

\* C36: in a run over a profile of FixedDuration steps only, without a
\* stop, a trip or an exception, the steps whose tick loop has been entered
\* are steps 1, 2, ... in profile order, each once, and safe-shutdown is
\* entered only once, with the completion reason, after the tick loop of
\* every step of the profile has run.
C36_StepsInOrderThenCompletion ==
    (FixedOnly /\ ~stop_event /\ tripCount = 0 /\ ~raised) =>
       /\ \A i \in DOMAIN executed : executed[i] = i
       /\ sdReasons # << >> =>
             /\ sdReasons = << "ProfileCompleted" >>
             /\ Len(executed) = Len(settings.profile)

\* ---------------------------------------------------------------------
\* RunUntilCutoff steps
\* ---------------------------------------------------------------------

\* The positions of the worker inside the tick loop of a step.
InTickLoop == pc \in {"loop", "ticked", "sleep", "sleeping"}

\* C38: the tick loop of a RunUntilCutoff step is left only into
\* safe-shutdown or, with the stop flag set, into the stop branch that runs
\* safe-shutdown and returns, never into the step-complete branch; and no
\* step that follows a RunUntilCutoff step in the profile is ever started.
C38_CutoffStepIsLast ==
    /\ [] (pc = "stepstart" =>
              \A j \in 1..(idx - 1) : ~settings.profile[j].cutoff)
    /\ [][ (InTickLoop /\ row.cutoff /\ ~InTickLoop')
              => \/ pc' \in {"sd", "killed"}
                 \/ pc' = "postloop" /\ stop_event' ]_vars

(***************************************************************************)
(* The dQ/dV call of a tick: SpecDqTick reads the two voltages, forms       *)
(* avg_voltage as run does and calls _calculate_dq_dv with it.             *)
(***************************************************************************)

\* Voltage readings of a tick, in millivolts.
DqReadings == {Absent, V(3000), V(3020)}

\* avg_voltage of the tick in millivolts (the readings above have an
\* integral mean).
AvgMilliVolts(mv, sv) == AvgVoltage(mv, sv).n \div AvgVoltage(mv, sv).d

InitDqTick ==
    /\ settings = AccSettings
    /\ idx = 1
    /\ row = settings.profile[1]
    /\ current_imbalance_limit = settings.imbalance_limit
    /\ rd = NoReadings
    /\ pc = "dqtick"
    /\ RestInit

\* The voltage queries of a tick, avg_voltage, and the dQ/dV call.
DqTickStep ==
    /\ pc = "dqtick"
    /\ \E mv \in DqReadings, sv \in DqReadings, c \in DqCapacities :
         /\ rd' = Rd(mv, Absent, Absent, sv, Absent, Absent)
         /\ CalculateDqDv(AvgMilliVolts(mv, sv), c)
    /\ UNCHANGED << cfgVars, accVars, outVars, plot_times, qry, appVars, histVars,
                    ctlVars, stepVars, timeVars, tickResult, tickElapsed,
                    ticks, tripCount, imbalances, totals, csvVars, sdVars,
                    sleepLeft, ser, pc, pos, lastCmd >>

NextDqTick == DqTickStep

SpecDqTick == InitDqTick /\ [][NextDqTick]_vars

\* C39: a tick in which both voltage readings are absent leaves the dQ/dV
\* baseline voltage, the stored dQ/dV value, its voltage and the validity
\* flag as they were, so that the baseline is only ever a voltage taken
\* from a present reading.
C39_AbsentVoltagesLeaveDqDv ==
    /\ [] (Present(last_avg_voltage) => Val(last_avg_voltage) # 0)
    /\ [][ (~Present(rd'.mv) /\ ~Present(rd'.sv))
              => UNCHANGED << last_avg_voltage, dq_dv, dq_dv_voltage,
                              dq_dv_valid >> ]_vars

====
